---------------------------- MODULE Spec2Model ----------------------------
(***************************************************************************)
(* Model of slider_verify: the orchestrator of main.py                     *)
(* (VerificationOrchestrator), the remote-session automation of            *)
(* vm_automation.py (VMAutomation: login protocol, interactive command     *)
(* protocol, session lifetime) and the oracle adapter of llm_client.py     *)
(* (LLMClient.verify_ui_state, LLMClient.detect_login_fields).             *)
(*                                                                         *)
(* Python strings are TLA+ strings handled character by character with     *)
(* Len, SubSeq and \o, so that upper(), lower(), strip(), split() and the  *)
(* "in" substring test are computed the way the code computes them.        *)
(***************************************************************************)
EXTENDS Integers, Sequences, FiniteSets, TLC

(***************************************************************************)
(* Bounds of the model.                                                    *)
(***************************************************************************)
\* largest number of login-screen polls a configured timeout allows
MaxPolls == 6
\* largest number of literal shell commands given to a run
MaxCommands == 1
\* largest number of free-text custom steps given to a run
MaxCustomSteps == 2
\* largest number of screenshot captures that fail in one run
MaxCaptureFailures == 1
\* operations called directly on a started session
MaxCalls == 1
\* VMs a user of the provider client creates
MaxHandles == 2
\* destroy_vm calls a user of the provider client makes
MaxDestroyCalls == 4
\* agents with a snapshot that a batch verifies
MaxAgents == 2
\* keyboard calls of the browser driver that fail while a text is typed
MaxKeyFailures == 1

(***************************************************************************)
(* Python string primitives.                                               *)
(***************************************************************************)
LowerAlpha == "abcdefghijklmnopqrstuvwxyz"
UpperAlpha == "ABCDEFGHIJKLMNOPQRSTUVWXYZ"
Whitespace == {" ", "\t", "\r", "\n"}

CharAt(s, i) == SubSeq(s, i, i)

\* sub in s
Contains(s, sub) ==
    \E i \in 1..(Len(s) - Len(sub) + 1) : SubSeq(s, i, i + Len(sub) - 1) = sub

\* the letter maps of upper() and lower()
UpperOf == [c \in {CharAt(LowerAlpha, i) : i \in 1..26} |->
               CharAt(UpperAlpha, CHOOSE i \in 1..26 : CharAt(LowerAlpha, i) = c)]
LowerOf == [c \in {CharAt(UpperAlpha, i) : i \in 1..26} |->
               CharAt(LowerAlpha, CHOOSE i \in 1..26 : CharAt(UpperAlpha, i) = c)]

UpChar(c) == IF c \in DOMAIN UpperOf THEN UpperOf[c] ELSE c

LowChar(c) == IF c \in DOMAIN LowerOf THEN LowerOf[c] ELSE c

\* s.upper()
RECURSIVE Upper(_)
Upper(s) ==
    IF Len(s) = 0 THEN ""
    ELSE IF Len(s) = 1 THEN UpChar(s)
    ELSE LET half == Len(s) \div 2
         IN  Upper(SubSeq(s, 1, half)) \o Upper(SubSeq(s, half + 1, Len(s)))

\* s.lower()
RECURSIVE Lower(_)
Lower(s) ==
    IF Len(s) = 0 THEN ""
    ELSE IF Len(s) = 1 THEN LowChar(s)
    ELSE LET half == Len(s) \div 2
         IN  Lower(SubSeq(s, 1, half)) \o Lower(SubSeq(s, half + 1, Len(s)))

RECURSIVE LStrip(_)
LStrip(s) ==
    IF Len(s) > 0 /\ CharAt(s, 1) \in Whitespace
    THEN LStrip(SubSeq(s, 2, Len(s)))
    ELSE s

RECURSIVE RStrip(_)
RStrip(s) ==
    IF Len(s) > 0 /\ CharAt(s, Len(s)) \in Whitespace
    THEN RStrip(SubSeq(s, 1, Len(s) - 1))
    ELSE s

\* s.strip()
Strip(s) == RStrip(LStrip(s))

\* position of the first occurrence of the one-character string sep in s
FirstIndex(s, sep) ==
    CHOOSE k \in 1..Len(s) :
        CharAt(s, k) = sep /\ \A j \in 1..(k - 1) : CharAt(s, j) # sep

\* s.split(sep) for a one-character separator
RECURSIVE Split(_, _)
Split(s, sep) ==
    IF ~Contains(s, sep) THEN <<s>>
    ELSE LET i == FirstIndex(s, sep)
         IN  <<SubSeq(s, 1, i - 1)>> \o Split(SubSeq(s, i + 1, Len(s)), sep)

\* s.split(':', 1)[1], used only on lines that contain a colon
AfterColon(s) == SubSeq(s, FirstIndex(s, ":") + 1, Len(s))

\* s.split('\\')[-1] if '\\' in s else s
StripDomain(s) ==
    IF Contains(s, "\\")
    THEN LET parts == Split(s, "\\") IN parts[Len(parts)]
    ELSE s

\* optional strings: None and a present value
NoneStr == [isNone |-> TRUE, val |-> ""]
Some(s) == [isNone |-> FALSE, val |-> s]
\* Python truthiness of an optional string
Truthy(o) == ~o.isNone /\ o.val # ""

(***************************************************************************)
(* The oracle (llm_client.py).  A reply of the vision model is either a    *)
(* text, a missing content (None) or a failure of the API call.            *)
(***************************************************************************)
TextReply(t) == [kind |-> "text", text |-> t]
NoContentReply == [kind |-> "none", text |-> ""]
ApiErrorReply == [kind |-> "api_error", text |-> "timeout"]

\* LLMClient.analyze_screenshot: the reply text, an error text when the
\* call fails, None when the model returns no content
analyze_screenshot(reply) ==
    CASE reply.kind = "text" -> Some(reply.text)
      [] reply.kind = "api_error" ->
            Some("ERROR: Could not analyze screenshot - " \o reply.text)
      [] OTHER -> NoneStr

\* the parsing loop of verify_ui_state over the upper-cased lines
RECURSIVE ParseVerdict(_, _)
ParseVerdict(lines, result) ==
    IF lines = <<>> THEN result
    ELSE LET line == Head(lines)
             next ==
                IF Contains(line, "VERIFIED:")
                THEN [result EXCEPT !.verified = Contains(line, "YES")]
                ELSE IF Contains(line, "CONFIDENCE:")
                THEN LET conf == Lower(Strip(AfterColon(line)))
                     IN  IF conf \in {"high", "medium", "low"}
                         THEN [result EXCEPT !.confidence = conf]
                         ELSE result
                ELSE IF Contains(line, "DESCRIPTION:")
                THEN [result EXCEPT !.description = Strip(AfterColon(line))]
                ELSE result
         IN  ParseVerdict(Tail(lines), next)

\* whether verify_ui_state finds one of its labelled fields in a line of the
\* response
HasLabelledField(response) ==
    LET text == Upper(response)
    IN  \/ Contains(text, "VERIFIED:")
        \/ Contains(text, "CONFIDENCE:")
        \/ Contains(text, "DESCRIPTION:")

\* a verify_ui_state whose verdict starts at medium confidence
verify_ui_state_medium_default(reply) ==
    LET response == analyze_screenshot(reply)
    IN  IF response.isNone
        THEN [verified |-> FALSE, confidence |-> "error",
              description |-> "Error during verification: 'NoneType' object has no attribute 'upper'"]
        ELSE ParseVerdict(Split(Upper(response.val), "\n"),
                          [verified |-> FALSE, confidence |-> "medium",
                           description |-> response.val])

\* LLMClient.verify_ui_state
verify_ui_state(reply) ==
    LET response == analyze_screenshot(reply)
    IN  IF response.isNone
        THEN \* response.upper() raises and the except clause answers
             [verified |-> FALSE, confidence |-> "error",
              description |-> "Error during verification: 'NoneType' object has no attribute 'upper'"]
        ELSE ParseVerdict(Split(Upper(response.val), "\n"),
                          [verified |-> FALSE, confidence |-> "low",
                           description |-> response.val])

\* the parsing loop of detect_login_fields over the lines
RECURSIVE ParseFields(_, _)
ParseFields(lines, result) ==
    IF lines = <<>> THEN result
    ELSE LET line == Head(lines)
             line_upper == Upper(line)
             next ==
                IF Contains(line_upper, "USERNAME_FIELD:") \/ Contains(line_upper, "USERNAME FIELD:")
                THEN [result EXCEPT !.has_username = Contains(line_upper, "YES")]
                ELSE IF Contains(line_upper, "PASSWORD_FIELD:") \/ Contains(line_upper, "PASSWORD FIELD:")
                THEN [result EXCEPT !.has_password = Contains(line_upper, "YES")]
                ELSE IF Contains(line_upper, "DISPLAYED_USERNAME:") \/ Contains(line_upper, "DISPLAYED USERNAME:")
                THEN LET username == Strip(AfterColon(line))
                     IN  [result EXCEPT !.displayed_username =
                              IF Lower(username) # "none" THEN Some(username) ELSE NoneStr]
                ELSE IF Contains(line_upper, "DESCRIPTION:")
                THEN [result EXCEPT !.description = Strip(AfterColon(line))]
                ELSE result
         IN  ParseFields(Tail(lines), next)

\* LLMClient.detect_login_fields
detect_login_fields(reply) ==
    LET response == analyze_screenshot(reply)
    IN  IF response.isNone
        THEN \* response.split raises and the except clause answers
             [has_username |-> TRUE, has_password |-> TRUE,
              displayed_username |-> NoneStr,
              description |-> "Error during detection: 'NoneType' object has no attribute 'split'"]
        ELSE LET parsed == ParseFields(Split(response.val, "\n"),
                               [has_username |-> FALSE, has_password |-> FALSE,
                                displayed_username |-> NoneStr, description |-> ""])
             IN  IF parsed.description = ""
                 THEN [parsed EXCEPT !.description =
                          SubSeq(response.val, 1,
                                 IF Len(response.val) < 200 THEN Len(response.val) ELSE 200)]
                 ELSE parsed

(***************************************************************************)
(* Inputs of the environment: what the vision oracle may answer at each    *)
(* place the protocols consult it, and the configured settings.            *)
(***************************************************************************)
\* a well-formed three-field reply to verify_ui_state's prompt
VerdictReply(v, c, d) ==
    TextReply("VERIFIED: " \o v \o "\nCONFIDENCE: " \o c \o "\nDESCRIPTION: " \o d)

\* a well-formed four-field reply to detect_login_fields' prompt
FieldReply(u, p, shown, d) ==
    TextReply("USERNAME_FIELD: " \o u \o "\nPASSWORD_FIELD: " \o p
              \o "\nDISPLAYED_USERNAME: " \o shown \o "\nDESCRIPTION: " \o d)

\* replies to the login-screen poll
PollReplies ==
    { VerdictReply("yes", "high", "Login screen with a password field"),
      VerdictReply("no", "high", "Black screen"),
      ApiErrorReply }

\* replies to the first field detection
FieldReplies ==
    { FieldReply(u, p, shown, "Windows login screen") :
          u \in {"yes", "no"}, p \in {"yes", "no"},
          shown \in {"none", "CORP\\Administrator"} }
    \cup { FieldReply("yes", "yes", "Guest", "Guest tile"),
           FieldReply("no", "yes", "Guest", "Guest tile"),
           TextReply(""), TextReply("I see a login screen"),
           TextReply("DISPLAYED_USERNAME: ADMINISTRATOR"),
           TextReply("USERNAME_FIELD: yes\nPASSWORD_FIELD: yes"),
           TextReply("USERNAME_FIELD: yes\nDESCRIPTION: Other user form"),
           NoContentReply, ApiErrorReply }

\* replies to the field detection made after a user switch
SwitchReplies ==
    { FieldReply("yes", "yes", "none", "Other user form"),
      FieldReply("no", "yes", "Guest", "Guest tile still selected"),
      TextReply("") }

\* replies to the post-submit verification
LoginVerifyReplies ==
    { VerdictReply("yes", "high", "Windows desktop with taskbar visible"),
      VerdictReply("yes", "medium", "Still on login screen"),
      VerdictReply("no", "high", "Shutdown Event Tracker dialog over the desktop"),
      VerdictReply("no", "high", "Windows desktop with taskbar visible"),
      VerdictReply("no", "high", "Still on login screen"),
      VerdictReply("no", "low", "The message says incorrect password"),
      VerdictReply("no", "high", "The screen is locked"),
      VerdictReply("no", "high", "No desktop or taskbar - incorrect password"),
      VerdictReply("no", "medium", "Shutdown did not happen, still on login"),
      VerdictReply("no", "low", "Black screen"),
      VerdictReply("no", "high", "Black screen"),
      VerdictReply("no", "high", ""),
      TextReply("I cannot tell what this is"),
      TextReply("A login prompt asking for the password"),
      TextReply("Wrong password, try again"),
      TextReply("CONFIDENCE: medium\nDESCRIPTION: A wrong password notice"),
      NoContentReply, ApiErrorReply }

\* replies to the run-dialog verification
RunDialogReplies ==
    { VerdictReply("yes", "high", "Run dialog with an Open: field"),
      VerdictReply("no", "high", "Desktop only"),
      VerdictReply("no", "high", "Press Ctrl+Alt+Delete to unlock"),
      VerdictReply("yes", "medium", "Run dialog over the lock screen") }

\* replies to the verification of the command's output
OutputReplies ==
    { VerdictReply("yes", "high", "The command output is listed"),
      VerdictReply("no", "high", "Red text is shown in the terminal"),
      VerdictReply("no", "low", "No errors detected, no red text"),
      VerdictReply("yes", "high", "Access is denied"),
      VerdictReply("no", "medium", "Cannot read the terminal") }

\* replies to the verification that a window (Services, Server Manager) shows
WindowReplies ==
    { VerdictReply("yes", "high", "The window is open"),
      VerdictReply("no", "high", "Desktop only"),
      TextReply("I cannot tell") }

\* Settings.vm_login_screen_timeout, in seconds
LoginTimeouts == {5} \cup { 10 * k : k \in {1, 2, MaxPolls} }

\* Settings.windows_username
Usernames == {"administrator", "CORP\\Administrator"}

\* the configurations of a run: the login settings of config.py and the
\* numbers of literal commands and of custom steps handed to run_verification
SettingsSet ==
    { [vm_login_screen_timeout |-> t, windows_username |-> "administrator",
       ps_commands |-> 0, custom_steps |-> 0] : t \in LoginTimeouts }
    \cup { [vm_login_screen_timeout |-> 10, windows_username |-> u,
            ps_commands |-> 0, custom_steps |-> 0] : u \in Usernames }
    \cup { [vm_login_screen_timeout |-> 10, windows_username |-> "administrator",
            ps_commands |-> n, custom_steps |-> m] :
                n \in 0..MaxCommands, m \in 0..MaxCustomSteps }

(***************************************************************************)
(* State.                                                                  *)
(***************************************************************************)
VARIABLES
    pc,            \* control point of the orchestrator and of the protocol it runs
    vm_id,         \* VerificationOrchestrator.vm_id, 0 for None
    runVM,         \* handle returned by create_vm in the current run, 0 if none
    vmCount,       \* VMs the provider has created so far
    providerVMs,   \* VMs alive at the provider
    destroyCalls,  \* handles destroy_vm was called with, in call order
    exc,           \* the exception in flight
    acquired,      \* VMAutomation: browser resources whose attribute is set
    released,      \* how often each browser resource was closed
    screenshots,   \* VMAutomation.screenshots
    action_log,    \* VMAutomation.action_log
    input_log,     \* gestures the operation in progress has sent to the remote session
    steps_completed, \* _perform_verification: steps_completed
    login,         \* locals of login_windows
    cmd,           \* locals of run_powershell_interactive and of its caller
    captureFailures, \* screenshot captures that failed in this run
    perf,          \* value returned by _perform_verification
    result,        \* value returned by run_verification
    settings,      \* the configuration the run was started with
    oracle,        \* what the vision oracle may hand back at each consultation
    llm,           \* LLMClient: the call in progress, the model's reply and the value returned
    calls,         \* operations called directly, as they returned
    batch,         \* run_verification_for_all_agents: the agents and the results so far
    keyboard,      \* the text a protocol is typing into the session, character by character
    mouse          \* the canvas a click is aimed at and where the click went

vars == <<pc, vm_id, runVM, vmCount, providerVMs, destroyCalls,
          exc, acquired, released, screenshots, action_log, input_log,
          steps_completed, login, cmd, captureFailures, perf, result,
          settings, oracle, llm, calls, batch, keyboard, mouse>>

Resources == <<"playwright", "browser", "context", "page">>
ResourceSet == {Resources[i] : i \in 1..4}

NoExc == [type |-> "none", msg |-> ""]
Raise(t, m) == [type |-> t, msg |-> m]

NoPerf ==
    [set |-> FALSE, steps_completed |-> <<>>, screenshots |-> <<>>,
     action_log |-> <<>>, login_failed |-> FALSE, error |-> ""]

\* no click has been made
NoBox == [x |-> 0, y |-> 0, width |-> 0, height |-> 0]
NoMouse == [canvas |-> "", bbox |-> NoBox, op |-> "", x |-> 0, y |-> 0, target |-> "",
            page_x |-> 0, page_y |-> 0]

\* nothing is being typed
NoKeyboard == [field |-> "", text |-> "", typed |-> 0, failures |-> 0]

\* no batch in progress
NoBatch == [agents |-> 0, agent |-> 0, results |-> <<>>]

NoResult ==
    [set |-> FALSE, success |-> FALSE, login_failed |-> FALSE, error |-> "",
     has_results |-> FALSE, results |-> NoPerf]

NoVerdict == [isNone |-> TRUE, verified |-> FALSE, confidence |-> "", description |-> ""]
SomeVerdict(v) ==
    [isNone |-> FALSE, verified |-> v.verified, confidence |-> v.confidence,
     description |-> v.description]

NoFields ==
    [has_username |-> FALSE, has_password |-> FALSE,
     displayed_username |-> NoneStr, description |-> ""]

\* no call of the LLMClient in progress
NoLLM ==
    [op |-> "", reply |-> NoContentReply,
     verdict |-> [verified |-> FALSE, confidence |-> "", description |-> ""],
     fields |-> NoFields]

\* the frame of login_windows: its parameters and locals, and a record of
\* what the call has done so far (polls, the polls with a wake gesture, the
\* poll that got a positive verdict, the vision model's reply to the first
\* field detection and what was detected, detections, user switches, the way the
\* credentials were entered, submits, the number of verdicts the call added
\* to verification_results, whether the idle-lock timeouts were disabled, how
\* the call ended)
NoLogin ==
    [username |-> "", max_attempts |-> 0, attempts |-> 0,
     login_screen_ready |-> FALSE, screenshot_ok |-> FALSE,
     wake_polls |-> {}, first_positive |-> 0,
     reply |-> NoContentReply, detected |-> NoFields, field_detection |-> NoFields, detections |-> 0,
     switches |-> 0, mode |-> "", submits |-> 0,
     verification |-> NoVerdict, verification_results |-> 0, idle_lock |-> "",
     outcome |-> ""]

\* login_windows has returned or raised: its parameters and locals are
\* gone, the record of what the call did stays
LoginReturned(l, outcome) ==
    [l EXCEPT !.username = "", !.max_attempts = 0, !.login_screen_ready = FALSE,
              !.screenshot_ok = FALSE, !.reply = NoContentReply, !.detected = NoFields,
              !.field_detection = NoFields, !.verification = NoVerdict,
              !.outcome = outcome]

\* the frame of an operation with an attempt loop (op, attempt, the value
\* returned), a record of its passes (tries: passes begun, errors: passes
\* whose output was classified as an error, failures: passes that ended in
\* a failure the loop retries while attempts remain) and the frame of the
\* loop that calls it (caller, index, total, and the results list of
\* perform_custom_steps); dialog is the verdict on the Run dialog and output
\* the verdict on the command's output in the pass that just ended, None
\* when the pass got none; verification_results is the number of verdicts
\* the operation added to the session's verification_results
NoCmd ==
    [caller |-> "", op |-> "", index |-> 0, total |-> 0, attempt |-> 0, tries |-> 0,
     errors |-> 0, failures |-> 0, success |-> FALSE, dialog |-> NoVerdict,
     output |-> NoVerdict, verification_results |-> 0, custom_results |-> <<>>]

(***************************************************************************)
(* VMAutomation helpers.                                                   *)
(***************************************************************************)
\* whether a capture may still fail in this run
CaptureOutcomes == IF captureFailures < MaxCaptureFailures THEN BOOLEAN ELSE {TRUE}

\* a capture that lists the path before the screenshot is taken
CapturedBeforeTaken(shots, name, ok) == Append(shots, name)

\* _capture_screenshot(name): the screenshot list after the call; a failed
\* capture is swallowed and appends nothing
Captured(shots, name, ok) == IF ok THEN Append(shots, name) ELSE shots

\* _capture_screenshot(name, verify_state=...): the verdict handed back,
\* None when the capture failed
CaptureVerdict(ok, verdict) == IF ok THEN verdict ELSE NoVerdict

\* _capture_screenshot: the path handed back, empty when the capture failed
CapturePath(name, ok) == IF ok THEN name ELSE ""

Failures(oks) == Cardinality({i \in DOMAIN oks : ~oks[i]})

(***************************************************************************)
(* The orchestrator: run_verification up to the start of the session.      *)
(***************************************************************************)
\* main() calls run_verification: its entry
StartRun ==
    /\ pc = "idle"
    /\ pc' = "get_snapshot"
    /\ runVM' = 0
    /\ exc' = NoExc
    /\ acquired' = {}
    /\ released' = [r \in ResourceSet |-> 0]
    /\ screenshots' = <<>>
    /\ action_log' = <<>>
    /\ input_log' = <<>>
    /\ steps_completed' = <<>>
    /\ login' = NoLogin
    /\ cmd' = NoCmd
    /\ captureFailures' = 0
    /\ perf' = NoPerf
    /\ result' = NoResult
    /\ UNCHANGED <<mouse, keyboard, batch, settings, oracle, llm, calls, vm_id, vmCount, providerVMs, destroyCalls>>

\* Step 1: _get_latest_snapshot and the agent details (a failure to fetch
\* the details is logged and ignored)
GetLatestSnapshot ==
    /\ pc = "get_snapshot"
    /\ \E outcome \in {"found", "none", "api_error"} :
          CASE outcome = "found" ->
                 /\ pc' = "create_vm"
                 /\ exc' = exc
            [] outcome = "none" ->
                 /\ pc' = "except"
                 /\ exc' = Raise("ValueError", "No snapshots available")
            [] OTHER ->
                 /\ pc' = "except"
                 /\ exc' = Raise("SlideAPIError", "API request failed")
    /\ UNCHANGED <<mouse, keyboard, batch, settings, oracle, llm, calls, vm_id, runVM, vmCount, providerVMs, destroyCalls,
                   acquired, released, screenshots, action_log, input_log,
                   steps_completed, login, cmd, captureFailures, perf, result>>

\* Step 2, first part: _get_device_id_from_snapshot and create_vm
CreateVM ==
    /\ pc = "create_vm"
    /\ \E outcome \in {"created", "no_device", "api_error"} :
          CASE outcome = "created" ->
                 /\ vmCount' = vmCount + 1
                 /\ providerVMs' = providerVMs \cup {vmCount + 1}
                 /\ runVM' = vmCount + 1
                 /\ vm_id' = vmCount + 1
                 /\ pc' = "wait_ready"
                 /\ exc' = exc
            [] outcome = "no_device" ->
                 /\ pc' = "except"
                 /\ exc' = Raise("ValueError", "Snapshot has no locations/devices")
                 /\ UNCHANGED <<vmCount, providerVMs, runVM, vm_id>>
            [] OTHER ->
                 /\ pc' = "except"
                 /\ exc' = Raise("SlideAPIError", "API request failed")
                 /\ UNCHANGED <<vmCount, providerVMs, runVM, vm_id>>
    /\ UNCHANGED <<mouse, keyboard, batch, settings, oracle, llm, calls, destroyCalls, acquired, released, screenshots,
                   action_log, input_log, steps_completed, login, cmd,
                   captureFailures, perf, result>>

\* Step 2, second part: wait_for_vm_ready and get_vm_details
WaitForVMReady ==
    /\ pc = "wait_ready"
    /\ \E outcome \in {"running", "timeout", "details_error"} :
          CASE outcome = "running" ->
                 /\ pc' = "get_url"
                 /\ exc' = exc
            [] outcome = "timeout" ->
                 /\ pc' = "except"
                 /\ exc' = Raise("VMAutomationError",
                                 "VM failed to become ready within timeout period")
            [] OTHER ->
                 /\ pc' = "except"
                 /\ exc' = Raise("SlideAPIError", "API request failed")
    /\ UNCHANGED <<mouse, keyboard, batch, settings, oracle, llm, calls, vm_id, runVM, vmCount, providerVMs, destroyCalls,
                   acquired, released, screenshots, action_log, input_log,
                   steps_completed, login, cmd, captureFailures, perf, result>>

\* Step 3: _get_novnc_url
GetNovncUrl ==
    /\ pc = "get_url"
    /\ \E outcome \in {"url", "empty", "api_error"} :
          CASE outcome = "url" ->
                 /\ pc' = "vm_start"
                 /\ exc' = exc
            [] outcome = "empty" ->
                 /\ pc' = "except"
                 /\ exc' = Raise("VMAutomationError", "Failed to get noVNC URL")
            [] OTHER ->
                 /\ pc' = "except"
                 /\ exc' = Raise("SlideAPIError", "No VNC data available for VM")
    /\ UNCHANGED <<mouse, keyboard, batch, settings, oracle, llm, calls, vm_id, runVM, vmCount, providerVMs, destroyCalls,
                   acquired, released, screenshots, action_log, input_log,
                   steps_completed, login, cmd, captureFailures, perf, result>>

(***************************************************************************)
(* The session: _perform_verification's with-block around VMAutomation.    *)
(***************************************************************************)
\* VMAutomation.__enter__ / start: the four resources are acquired in
\* order; when the k+1-st acquisition raises, the first k stay acquired and
\* the with-block is never entered, so __exit__ does not run
VMStart ==
    /\ pc = "vm_start"
    /\ \E k \in 0..4 :
          /\ acquired' = {Resources[i] : i \in 1..k}
          /\ IF k = 4
             THEN /\ pc' = "connect"
                  /\ exc' = exc
             ELSE /\ pc' = "except"
                  /\ exc' = Raise("Error", "Failed to start " \o Resources[k + 1])
    /\ UNCHANGED <<mouse, keyboard, batch, settings, oracle, llm, calls, vm_id, runVM, vmCount, providerVMs, destroyCalls,
                   released, screenshots, action_log, input_log,
                   steps_completed, login, cmd, captureFailures, perf, result>>

\* connect_to_vm and the step it records
ConnectToVM ==
    /\ pc = "connect"
    /\ \E goto_ok \in BOOLEAN, ok \in CaptureOutcomes :
          IF goto_ok
          THEN /\ screenshots' = Captured(screenshots, "01_novnc_connected", ok)
               /\ captureFailures' = captureFailures + Failures(<<ok>>)
               /\ steps_completed' = Append(steps_completed,
                      [step_number |-> 1, kind |-> "connect", item |-> 0, success |-> TRUE, error |-> ""])
               /\ pc' = "wait_desktop"
               /\ exc' = exc
          ELSE /\ pc' = "vm_close"
               /\ exc' = Raise("VMAutomationError", "Failed to connect to VM")
               /\ UNCHANGED <<screenshots, captureFailures, steps_completed>>
    /\ UNCHANGED <<mouse, keyboard, batch, settings, oracle, llm, calls, vm_id, runVM, vmCount, providerVMs, destroyCalls,
                   acquired, released, action_log, input_log, login, cmd, perf, result>>

\* wait_for_windows_desktop and the step it records
WaitForWindowsDesktop ==
    /\ pc = "wait_desktop"
    /\ \E ok \in CaptureOutcomes :
          /\ screenshots' = Captured(screenshots, "02_windows_desktop", ok)
          /\ captureFailures' = captureFailures + Failures(<<ok>>)
    /\ steps_completed' = Append(steps_completed,
           [step_number |-> 2, kind |-> "desktop", item |-> 0, success |-> TRUE, error |-> ""])
    /\ pc' = "login_start"
    /\ UNCHANGED <<mouse, keyboard, batch, settings, oracle, llm, calls, vm_id, runVM, vmCount, providerVMs, destroyCalls,
                   exc, acquired, released, action_log, input_log, login, cmd,
                   perf, result>>

(***************************************************************************)
(* The login protocol: VMAutomation.login_windows.                         *)
(***************************************************************************)
\* sequences of n capture outcomes that stay within the failure bound
CaptureSeqs(n) ==
    { oks \in [1..n -> BOOLEAN] : captureFailures + Failures(oks) <= MaxCaptureFailures }

\* a wake cadence without the gesture of the first poll
WakeEveryThird(attempts) == attempts % 3 = 0

\* the wake cadence of the wait loop: attempts == 1 or attempts % 3 == 0
WakeDue(attempts) == attempts = 1 \/ attempts % 3 = 0

\* the fallback applied to a detection that is empty or reports no field
FieldFallback(fd) ==
    IF fd.description = "" \/ (~fd.has_username /\ ~fd.has_password)
    THEN [has_username |-> FALSE, has_password |-> TRUE,
          displayed_username |-> NoneStr, description |-> "Fallback: password only"]
    ELSE fd

\* a comparison of the two names that tells upper from lower case
UsernameMatchesExactly(displayed_user, username) ==
    StripDomain(displayed_user) = StripDomain(username)

\* the comparison of the displayed with the expected username
UsernameMatches(displayed_user, username) ==
    Lower(StripDomain(displayed_user)) = Lower(StripDomain(username))

\* the candidate locations of the "Other user" control, in click order
other_user_locations ==
    <<"click:150,1000", "click:200,950", "click:150,950", "click:200,1020", "click:100,1000">>

\* an interpretation that lets low confidence or an empty description pass
\* before it looks for the failure phrases
login_verdict_low_first(verification) ==
    IF verification.isNone
    THEN [login_verified |-> TRUE, error |-> ""]
    ELSE LET confidence == verification.confidence
             description == Upper(verification.description)
             verified == verification.verified
         IN  IF verified
             THEN [login_verified |-> TRUE, error |-> ""]
             ELSE IF Contains(description, "SHUTDOWN")
             THEN [login_verified |-> TRUE, error |-> ""]
             ELSE IF Contains(description, "DESKTOP") /\ Contains(description, "TASKBAR")
             THEN [login_verified |-> TRUE, error |-> ""]
             ELSE IF confidence = "low" \/ description = ""
             THEN [login_verified |-> TRUE, error |-> ""]
             ELSE [login_verified |-> FALSE,
                   error |-> "Login FAILED. AI saw: " \o description]

\* the phrases that the interpretation of the post-submit verdict takes for
\* a login failure
login_failure_phrase(verification) ==
    LET description == Upper(verification.description)
    IN  \/ Contains(description, "STILL ON LOGIN")
        \/ Contains(description, "SHOWING LOGIN")
        \/ Contains(description, "AT LOGIN SCREEN")
        \/ Contains(description, "INCORRECT PASSWORD")
        \/ Contains(description, "PASSWORD INCORRECT")
        \/ Contains(description, "WRONG PASSWORD")
        \/ Contains(description, "LOCKED") /\ Contains(description, "SCREEN")

\* the interpretation of the post-submit verdict: whether the login counts
\* as verified, and the message of the VMAutomationError raised otherwise
login_verdict(verification) ==
    IF verification.isNone
    THEN [login_verified |-> TRUE, error |-> ""]
    ELSE LET confidence == verification.confidence
             description == Upper(verification.description)
             verified == verification.verified
         IN  IF verified
             THEN [login_verified |-> TRUE, error |-> ""]
             ELSE IF Contains(description, "SHUTDOWN EVENT TRACKER") \/ Contains(description, "SHUTDOWN")
             THEN [login_verified |-> TRUE, error |-> ""]
             ELSE IF Contains(description, "DESKTOP") /\ Contains(description, "TASKBAR")
             THEN [login_verified |-> TRUE, error |-> ""]
             ELSE IF \/ Contains(description, "STILL ON LOGIN")
                     \/ Contains(description, "SHOWING LOGIN")
                     \/ Contains(description, "AT LOGIN SCREEN")
             THEN [login_verified |-> FALSE,
                   error |-> "Login FAILED - Still on login screen. AI saw: " \o description]
             ELSE IF \/ Contains(description, "INCORRECT PASSWORD")
                     \/ Contains(description, "PASSWORD INCORRECT")
                     \/ Contains(description, "WRONG PASSWORD")
             THEN [login_verified |-> FALSE,
                   error |-> "Login FAILED - Password incorrect. AI saw: " \o description]
             ELSE IF Contains(description, "LOCKED") /\ Contains(description, "SCREEN")
             THEN [login_verified |-> FALSE,
                   error |-> "Login FAILED - Screen is locked. AI saw: " \o description]
             ELSE IF confidence = "low" \/ description = ""
             THEN [login_verified |-> TRUE, error |-> ""]
             ELSE [login_verified |-> FALSE,
                   error |-> "Login FAILED - AI verification did not detect Windows desktop. AI saw: "
                             \o description]

\* a number of polls that covers a timeout that is not a multiple of ten
max_attempts_rounded_up(max_wait_for_login_screen) == (max_wait_for_login_screen + 9) \div 10

\* max_attempts = max_wait_for_login_screen // 10: one poll every 10 seconds
max_attempts(max_wait_for_login_screen) == max_wait_for_login_screen \div 10

\* login_windows is entered with the configured username and timeout
LoginStart ==
    /\ pc = "login_start"
    /\ login' = [NoLogin EXCEPT !.username = settings.windows_username,
                                !.max_attempts = max_attempts(settings.vm_login_screen_timeout)]
    /\ pc' = "login_wait"
    /\ UNCHANGED <<mouse, keyboard, batch, settings, oracle, llm, calls, vm_id, runVM, vmCount, providerVMs, destroyCalls,
                   exc, acquired, released, screenshots, action_log, input_log,
                   steps_completed, cmd, captureFailures, perf, result>>

\* one pass of the wait loop: the wake gesture when due, a screenshot and
\* the oracle's verdict on it
LoginPoll ==
    /\ pc = "login_wait"
    /\ ~login.login_screen_ready
    /\ login.attempts < login.max_attempts
    /\ \E ok \in CaptureOutcomes, verdict \in oracle.login_screen :
          LET attempts == login.attempts + 1
              verification == CaptureVerdict(ok, verdict)
              ready == verification.isNone \/ verification.verified
          IN  /\ action_log' = IF WakeDue(attempts)
                               THEN Append(action_log, "Send Ctrl+Alt+Del")
                               ELSE action_log
              /\ input_log' = IF WakeDue(attempts)
                              THEN Append(input_log, "Ctrl+Alt+Del")
                              ELSE input_log
              /\ screenshots' = Captured(screenshots,
                                   "03_login_screen_check_" \o ToString(attempts), ok)
              /\ captureFailures' = captureFailures + Failures(<<ok>>)
              /\ login' = [login EXCEPT
                              !.attempts = attempts,
                              !.wake_polls = IF WakeDue(attempts) THEN @ \cup {attempts} ELSE @,
                              !.first_positive = IF ~verification.isNone /\ verification.verified
                                                 THEN attempts ELSE @,
                              !.screenshot_ok = ok,
                              !.verification_results = IF ok THEN @ + 1 ELSE @,
                              !.login_screen_ready = ready]
              /\ pc' = IF ready THEN "login_detect" ELSE "login_wait"
    /\ UNCHANGED <<mouse, keyboard, batch, settings, oracle, llm, calls, vm_id, runVM, vmCount, providerVMs, destroyCalls,
                   exc, acquired, released, steps_completed, cmd, perf, result>>

\* the wait loop ran out of attempts: the login screen did not appear
LoginScreenTimeout ==
    /\ pc = "login_wait"
    /\ ~login.login_screen_ready
    /\ login.attempts >= login.max_attempts
    /\ exc' = Raise("VMAutomationError",
                    "Login screen did not appear - cannot proceed with verification")
    /\ login' = [login EXCEPT !.outcome = "LoginScreenTimeout"]
    /\ pc' = "login_raised"
    /\ UNCHANGED <<mouse, keyboard, batch, settings, oracle, llm, calls, vm_id, runVM, vmCount, providerVMs, destroyCalls,
                   acquired, released, screenshots, action_log, input_log,
                   steps_completed, cmd, captureFailures, perf, result>>

\* field detection on the confirmed login screen and the comparison of the
\* displayed username with the expected one
LoginDetectFields ==
    /\ pc = "login_detect"
    /\ \E answer \in (IF login.screenshot_ok THEN oracle.login_fields ELSE {oracle.no_screenshot}) :
          LET detected == answer.fields
              fd == FieldFallback(detected)
              shown == fd.displayed_username
          IN  IF Truthy(shown)
              THEN IF UsernameMatches(shown.val, login.username)
                   THEN /\ login' = [login EXCEPT
                               !.reply = answer.reply, !.detected = detected,
                               !.detections = @ + 1,
                               !.field_detection =
                                   [has_username |-> FALSE, has_password |-> TRUE,
                                    displayed_username |-> shown,
                                    description |-> "Cached user matches: " \o shown.val]]
                        /\ pc' = "login_enter"
                   ELSE /\ login' = [login EXCEPT
                               !.reply = answer.reply, !.detected = detected,
                               !.detections = @ + 1,
                               !.field_detection = fd]
                        /\ pc' = "login_switch"
              ELSE /\ login' = [login EXCEPT
                          !.reply = answer.reply, !.detected = detected,
                          !.detections = @ + 1,
                          !.field_detection = fd]
                   /\ pc' = "login_enter"
    /\ UNCHANGED <<mouse, keyboard, batch, settings, oracle, llm, calls, vm_id, runVM, vmCount, providerVMs, destroyCalls,
                   exc, acquired, released, screenshots, action_log, input_log,
                   steps_completed, cmd, captureFailures, perf, result>>

\* the generic except clause of login_windows: a failure screenshot is
\* taken and the error is wrapped in a VMAutomationError
LoginWrapError(ok, msg) ==
    /\ screenshots' = Captured(screenshots, "04_login_failed", ok)
    /\ captureFailures' = captureFailures + Failures(<<ok>>)
    /\ exc' = Raise("VMAutomationError", "Login failed: " \o msg)
    /\ pc' = "login_raised"

\* a switch that is made again until both fields are detected
AfterSwitchUntilBothFields(fd) ==
    IF fd.has_username /\ fd.has_password THEN "login_enter" ELSE "login_switch"

\* after the re-detection the protocol goes on to the credential entry; what
\* was detected is logged only
AfterSwitch(fd) == "login_enter"

\* username mismatch: Escape, the clicks at the candidate locations, a new
\* screenshot and a second field detection
LoginSwitchUser ==
    /\ pc = "login_switch"
    /\ \E esc_ok \in BOOLEAN, oks \in CaptureSeqs(2), redetected \in oracle.switched_fields :
          IF esc_ok
          THEN /\ input_log' = (input_log \o <<"Escape">>) \o other_user_locations
               /\ screenshots' = Captured(Captured(screenshots,
                                     "03b_before_other_user_click", oks[1]),
                                     "03c_after_other_user_click", oks[2])
               /\ captureFailures' = captureFailures + Failures(oks)
               /\ login' = [login EXCEPT
                               !.switches = @ + 1,
                               !.field_detection =
                                   IF oks[2] THEN redetected ELSE oracle.no_screenshot.fields]
               /\ pc' = AfterSwitch(login'.field_detection)
               /\ exc' = exc
          ELSE /\ oks[2]
               /\ LoginWrapError(oks[1], "keyboard.press: Target closed")
               /\ login' = [login EXCEPT !.outcome = "LoginFailed"]
               /\ input_log' = input_log
    /\ UNCHANGED <<mouse, keyboard, batch, settings, oracle, llm, calls, vm_id, runVM, vmCount, providerVMs, destroyCalls,
                   acquired, released, action_log, steps_completed, cmd, perf, result>>

\* credential entry: password only when the detection says that only the
\* password field is there, username and password otherwise
LoginEnterCredentials ==
    /\ pc = "login_enter"
    /\ \E keys_ok \in BOOLEAN, ok \in CaptureOutcomes :
          LET fd == login.field_detection
              password_only == ~fd.has_username /\ fd.has_password
          IN  IF password_only
              THEN /\ action_log' = Append(action_log, "Enter password")
                   /\ IF keys_ok
                      THEN /\ input_log' = input_log \o
                                  <<"click_canvas", "click_canvas", "click_canvas",
                                    "click:960,560", "Control+A", "Backspace", "type:password">>
                           /\ login' = [login EXCEPT !.mode = "password_only"]
                           /\ pc' = "login_submit"
                           /\ ok
                           /\ UNCHANGED <<screenshots, captureFailures, exc>>
                      ELSE /\ input_log' = input_log \o
                                  <<"click_canvas", "click_canvas", "click_canvas", "click:960,560">>
                           /\ login' = [login EXCEPT !.outcome = "LoginFailed"]
                           /\ LoginWrapError(ok, "keyboard.press: Target closed")
              ELSE IF keys_ok
                   THEN /\ action_log' = (action_log \o <<"Enter username", "Enter password">>)
                        /\ input_log' = input_log \o
                               <<"click_canvas", "type:username", "Tab", "Control+A",
                                 "Delete", "type:password">>
                        /\ login' = [login EXCEPT !.mode = "both"]
                        /\ pc' = "login_submit"
                        /\ ok
                        /\ UNCHANGED <<screenshots, captureFailures, exc>>
                   ELSE /\ action_log' = Append(action_log, "Enter username")
                        /\ input_log' = input_log \o <<"click_canvas", "type:username", "Tab">>
                        /\ login' = [login EXCEPT !.outcome = "LoginFailed"]
                        /\ LoginWrapError(ok, "keyboard.press: Target closed")
    /\ UNCHANGED <<mouse, keyboard, batch, settings, oracle, llm, calls, vm_id, runVM, vmCount, providerVMs, destroyCalls,
                   acquired, released, steps_completed, cmd, perf, result>>

\* submit, the settle wait, the screenshot and the interpretation of the
\* oracle's verdict on it
LoginSubmit ==
    /\ pc = "login_submit"
    /\ \E enter_ok \in BOOLEAN, ok \in CaptureOutcomes, verdict \in oracle.login_verify :
          IF enter_ok
          THEN LET verification == CaptureVerdict(ok, verdict)
                   outcome == oracle.login_verdict[verification]
               IN  /\ input_log' = Append(input_log, "Enter")
                   /\ screenshots' = Captured(screenshots, "04_login_verify", ok)
                   /\ captureFailures' = captureFailures + Failures(<<ok>>)
                   /\ IF outcome.login_verified
                      THEN /\ login' = [login EXCEPT !.submits = @ + 1,
                                           !.verification = verification,
                                           !.verification_results = IF ok THEN @ + 1 ELSE @,
                                           !.outcome = "Verified"]
                           /\ pc' = "login_finish"
                           /\ exc' = exc
                      ELSE /\ login' = [login EXCEPT !.submits = @ + 1,
                                           !.verification = verification,
                                           !.verification_results = IF ok THEN @ + 1 ELSE @,
                                           !.outcome = "LoginFailed"]
                           /\ pc' = "login_raised"
                           /\ exc' = Raise("VMAutomationError", outcome.error)
          ELSE /\ LoginWrapError(ok, "keyboard.press: Target closed")
               /\ login' = [login EXCEPT !.outcome = "LoginFailed"]
               /\ input_log' = input_log
    /\ UNCHANGED <<mouse, keyboard, batch, settings, oracle, llm, calls, vm_id, runVM, vmCount, providerVMs, destroyCalls,
                   acquired, released, action_log, steps_completed, cmd, perf, result>>

\* a disabling of the idle lock whose failure leaves login_windows
disable_idle_lock_unguarded(keys_ok) == ~keys_ok

\* whether a failure while the idle-lock timeouts are disabled leaves the
\* try block around it: the except clause logs a warning and goes on
disable_idle_lock_raises(keys_ok) == FALSE

\* after a verified login: the idle-lock timeouts are disabled through the
\* shell (whether that works or raises is logged only), the final
\* screenshot is taken, login_windows returns True and the orchestrator
\* records step 3
LoginFinish ==
    /\ pc = "login_finish"
    /\ \E keys_ok \in BOOLEAN, ok \in CaptureOutcomes :
          LET idle_lock == IF keys_ok THEN "disabled" ELSE "failed"
          IN  IF disable_idle_lock_raises(keys_ok)
              THEN /\ LoginWrapError(ok, "keyboard.type: Target closed")
                   /\ login' = [login EXCEPT !.idle_lock = idle_lock, !.outcome = "LoginFailed"]
                   /\ input_log' = input_log
                   /\ steps_completed' = steps_completed
              ELSE /\ screenshots' = Captured(screenshots, "04_logged_in", ok)
                   /\ captureFailures' = captureFailures + Failures(<<ok>>)
                   /\ input_log' = <<>>
                   /\ login' = LoginReturned([login EXCEPT !.idle_lock = idle_lock], "LoggedIn")
                   /\ steps_completed' = Append(steps_completed,
                          [step_number |-> 3, kind |-> "login", item |-> 0, success |-> TRUE,
                           error |-> ""])
                   /\ pc' = "commands"
                   /\ exc' = exc
    /\ UNCHANGED <<mouse, keyboard, batch, settings, oracle, llm, calls, vm_id, runVM, vmCount, providerVMs, destroyCalls,
                   acquired, released, action_log, cmd, perf, result>>

\* the filter loop over the screenshots: those from the first one whose
\* name contains a marker onwards
RECURSIVE ScreenshotsFrom(_, _)
ScreenshotsFrom(all, markers) ==
    IF all = <<>> THEN <<>>
    ELSE IF \E m \in markers : Contains(Head(all), m) THEN all
    ELSE ScreenshotsFrom(Tail(all), markers)

\* a login failure after which the commands are run all the same
AfterLoginFailedGoOn == IF exc.type = "none" THEN "vm_close" ELSE "commands"

\* the return in the except VMAutomationError clause: a failed login leaves
\* _perform_verification, and with it the session
AfterLoginFailed == "vm_close"

\* _perform_verification catches the VMAutomationError of login_windows:
\* step 3 is recorded as failed and the result documents the login failure
LoginFailedReturn ==
    /\ pc = "login_raised"
    /\ LET steps == Append(steps_completed,
                       [step_number |-> 3, kind |-> "login", item |-> 0, success |-> FALSE, error |-> ""])
           shots == ScreenshotsFrom(screenshots, {"03_login", "04_login", "04_logged"})
       IN  /\ steps_completed' = steps
           /\ perf' = [set |-> TRUE, steps_completed |-> steps,
                       screenshots |-> IF shots # <<>> THEN shots ELSE screenshots,
                       action_log |-> action_log,
                       login_failed |-> TRUE, error |-> exc.msg]
    /\ exc' = NoExc
    /\ login' = LoginReturned(login, login.outcome)
    /\ input_log' = <<>>
    /\ pc' = AfterLoginFailed
    /\ UNCHANGED <<mouse, keyboard, batch, settings, oracle, llm, calls, vm_id, runVM, vmCount, providerVMs, destroyCalls,
                   acquired, released, screenshots, action_log,
                   cmd, captureFailures, result>>

(***************************************************************************)
(* The interactive command protocol: run_powershell_interactive.           *)
(***************************************************************************)
\* a cap that counts the retries after the first try
max_retries_after_first == 2 + 1

\* VMAutomation.__init__: max_retries, left at its default by the orchestrator
max_retries == 2

negation_phrases == {"NO RED", "NO ERROR", "NO ERRORS", "WITHOUT ERROR", "WITHOUT RED"}

error_indicators ==
    {"RED TEXT", "RED ERROR", "ERROR TEXT IN RED", "ERROR MESSAGE IS DISPLAYED",
     "ERROR MESSAGE IS VISIBLE", "DISPLAYS AN ERROR MESSAGE", "SHOWS AN ERROR MESSAGE",
     "ACCESS IS DENIED", "PERMISSION IS DENIED", "THE TERMINAL SHOWS THE ERROR OUTPUT"}

\* a test that never takes the screen for locked
screen_lock_ignored(verification) == FALSE

\* the lock-screen test made on the run-dialog verdict
screen_locked(verification) ==
    LET description == Upper(verification.description)
    IN  \/ Contains(description, "CTRL+ALT+DELETE")
        \/ Contains(description, "UNLOCK")
        \/ Contains(description, "LOCK SCREEN")

\* whether the description of the output verdict has a negation phrase
has_negation(verification) ==
    \E neg \in negation_phrases : Contains(Upper(verification.description), neg)

\* a search for the indicators that is skipped for a verified verdict
has_error_indicator_unless_verified(verification) ==
    /\ ~verification.verified
    /\ \E indicator \in error_indicators :
           Contains(Upper(verification.description), indicator)

\* the loop over error_indicators: whether one of them is in the description
has_error_indicator(verification) ==
    \E indicator \in error_indicators :
        Contains(Upper(verification.description), indicator)

\* a classification that looks for the error indicators only
command_has_error_by_indicator(verification) ==
    IF verification.isNone THEN FALSE
    ELSE \E indicator \in error_indicators :
             Contains(Upper(verification.description), indicator)

\* the classification of the output verdict
command_has_error(verification) ==
    IF verification.isNone THEN FALSE
    ELSE /\ ~has_negation(verification)
         /\ has_error_indicator(verification)

\* a loop that gives up after the first failed attempt
FailAtOnce(attempt) == "false"

\* what a failed attempt leads to: another attempt while attempts remain,
\* the return of False otherwise
RetryOrFail(attempt) == IF attempt < max_retries THEN "continue" ELSE "false"

\* one pass of the attempt loop of run_powershell_interactive: the
\* screenshots taken, the actions logged, the gestures sent, how the output
\* was classified and how the pass ends
AttemptEffect(attempt, keys_ok, oks, dlg, out) ==
    LET n == ToString(attempt)
        dialog == CaptureVerdict(oks[1], dlg)
        output == CaptureVerdict(oks[5], out)
        opened == Captured(screenshots, "09_run_dialog_opened_attempt" \o n, oks[1])
        typed == Captured(Captured(Captured(Captured(opened,
                     "09_run_dialog_typed_cmd_attempt" \o n, oks[2]),
                     "09_cmd_window_opened_attempt" \o n, oks[3]),
                     "09_powershell_prompt_ready_attempt" \o n, oks[4]),
                     "10_powershell_interactive_output_attempt" \o n, oks[5])
        unused(S) == \A i \in S : oks[i]
        has_error == oracle.command_has_error[output]
    IN  IF ~keys_ok
        THEN [enabled |-> unused(2..5),
              shots |-> Captured(screenshots,
                           "10_interactive_powershell_failed_attempt" \o n, oks[1]),
              log |-> <<"Open Run dialog">>,
              inputs |-> <<"click_canvas">>,
              error |-> FALSE, retryable |-> TRUE, dialog |-> NoVerdict, output |-> NoVerdict,
              verdicts |-> 0,
              ends |-> RetryOrFail(attempt)]
        ELSE IF ~dialog.isNone /\ oracle.screen_locked[dialog]
        THEN [enabled |-> unused(2..5), shots |-> opened,
              log |-> <<"Open Run dialog">>,
              inputs |-> <<"click_canvas", "Meta+R">>,
              error |-> FALSE, retryable |-> FALSE, dialog |-> dialog, output |-> NoVerdict,
              verdicts |-> 1,
              ends |-> "false"]
        ELSE IF ~dialog.isNone /\ ~dialog.verified
        THEN [enabled |-> unused(2..5), shots |-> opened,
              log |-> <<"Open Run dialog">>,
              inputs |-> <<"click_canvas", "Meta+R">>,
              error |-> FALSE, retryable |-> TRUE, dialog |-> dialog, output |-> NoVerdict,
              verdicts |-> 1,
              ends |-> RetryOrFail(attempt)]
        ELSE [enabled |-> TRUE, shots |-> typed,
              log |-> <<"Open Run dialog", "Launch PowerShell from cmd", "Execute command">>,
              inputs |-> <<"click_canvas", "Meta+R", "type:cmd.exe", "Enter",
                           "type:powershell.exe", "Enter", "type:command", "Enter", "Alt+F4">>,
              error |-> has_error, retryable |-> has_error, dialog |-> dialog, output |-> output,
              verdicts |-> Cardinality({i \in {1, 4, 5} : oks[i]}),
              ends |-> IF has_error THEN RetryOrFail(attempt) ELSE "true"]

\* the bookkeeping of a pass that ended: the loop goes on to the next
\* attempt or the operation returns
AfterAttempt(c, error, retryable, ends) ==
    LET counted == [c EXCEPT !.tries = @ + 1,
                             !.errors = IF error THEN @ + 1 ELSE @,
                             !.failures = IF retryable THEN @ + 1 ELSE @]
    IN  IF ends = "continue"
        THEN [counted EXCEPT !.attempt = @ + 1]
        ELSE [counted EXCEPT !.success = (ends = "true")]

\* a loop over the steps that stops at the first step that did not succeed
LoopStopsOnFailure(index, total, ok) == index < total /\ ok

\* the for loops over ps_commands and over the custom steps: the next item
\* is taken while there is one, whatever the outcome ok of the one before
LoopGoesOn(index, total, ok) == index < total

\* main.py: the literal commands are run in order, if there are any
BeginCommands ==
    /\ pc = "commands"
    /\ IF settings.ps_commands > 0
       THEN /\ cmd' = [NoCmd EXCEPT !.caller = "literal", !.op = "interactive", !.index = 1,
                                    !.total = settings.ps_commands, !.attempt = 1]
            /\ pc' = "cmd_attempt"
       ELSE /\ cmd' = NoCmd
            /\ pc' = "custom_steps"
    /\ UNCHANGED <<mouse, keyboard, batch, settings, oracle, llm, calls, vm_id, runVM, vmCount, providerVMs, destroyCalls,
                   exc, acquired, released, screenshots, action_log, input_log,
                   steps_completed, login, captureFailures, perf, result>>

\* run_powershell_interactive: one pass of the attempt loop, in a session
\* whose driver, captures and oracle answer as the given sets allow
InteractiveAttempt(keys, captures, dialogs, outputs) ==
    /\ pc = "cmd_attempt"
    /\ cmd.attempt <= max_retries
    /\ \E keys_ok \in keys, oks \in captures, dlg \in dialogs, out \in outputs :
          LET e == AttemptEffect(cmd.attempt, keys_ok, oks, dlg, out)
          IN  /\ e.enabled
              /\ screenshots' = e.shots
              /\ captureFailures' = captureFailures + Failures(oks)
              /\ action_log' = action_log \o e.log
              /\ input_log' = input_log \o e.inputs
              /\ cmd' = [AfterAttempt(cmd, e.error, e.retryable, e.ends)
                             EXCEPT !.dialog = e.dialog, !.output = e.output,
                                    !.verification_results = @ + e.verdicts]
              /\ pc' = IF e.ends = "continue" THEN "cmd_attempt" ELSE "cmd_return"
    /\ UNCHANGED <<mouse, keyboard, batch, settings, oracle, llm, calls, vm_id, runVM, vmCount, providerVMs, destroyCalls,
                   exc, acquired, released, steps_completed, login, perf, result>>

\* the oracle's answers to the run-dialog check when the dialog has opened
RunDialogOpened == { v \in oracle.run_dialog : v.verified /\ ~oracle.screen_locked[v] }

\* a pass made for the orchestrator, on the desktop of a run that has logged
\* in: the keys go through, the captures succeed and the Run dialog opens;
\* the output is whatever the command produces
CommandAttempt ==
    /\ cmd.caller \in {"literal", "custom"}
    /\ InteractiveAttempt({TRUE}, {[i \in 1..5 |-> TRUE]}, RunDialogOpened, oracle.output)

\* the step result of the i-th custom step (its description names the
\* step), numbered within perform_custom_steps
CustomResult(res, i, ok, err) ==
    Append(res, [step_number |-> Len(res) + 1, kind |-> "custom", item |-> i,
                 success |-> ok, error |-> err])

\* the caller takes the value run_powershell_interactive returned: the
\* orchestrator appends the step of a literal command, perform_custom_steps
\* appends the result of a custom step; then the next one, if any
CommandReturn ==
    /\ pc = "cmd_return"
    /\ cmd.caller \in {"literal", "custom"}
    /\ IF cmd.caller = "literal"
       THEN /\ steps_completed' = Append(steps_completed,
                   [step_number |-> Len(steps_completed) + 1, kind |-> "command",
                    item |-> cmd.index, success |-> cmd.success, error |-> ""])
            /\ IF LoopGoesOn(cmd.index, cmd.total, cmd.success)
               THEN /\ cmd' = [cmd EXCEPT !.index = @ + 1, !.attempt = 1, !.tries = 0,
                                          !.errors = 0, !.failures = 0, !.verification_results = 0,
                                          !.success = FALSE, !.dialog = NoVerdict, !.output = NoVerdict]
                    /\ pc' = "cmd_attempt"
               ELSE /\ cmd' = [cmd EXCEPT !.dialog = NoVerdict, !.output = NoVerdict]
                    /\ pc' = "custom_steps"
       ELSE LET res == CustomResult(cmd.custom_results, cmd.index, cmd.success, "")
            IN  IF LoopGoesOn(cmd.index, cmd.total, cmd.success)
                THEN /\ cmd' = [cmd EXCEPT !.index = @ + 1, !.custom_results = res,
                                           !.dialog = NoVerdict, !.output = NoVerdict]
                     /\ pc' = "custom_step"
                     /\ steps_completed' = steps_completed
                ELSE /\ cmd' = [cmd EXCEPT !.custom_results = res, !.dialog = NoVerdict, !.output = NoVerdict]
                     /\ steps_completed' = steps_completed \o res
                     /\ pc' = "collect"
    /\ input_log' = <<>>
    /\ UNCHANGED <<mouse, keyboard, batch, settings, oracle, llm, calls, vm_id, runVM, vmCount, providerVMs, destroyCalls,
                   exc, acquired, released, screenshots, action_log,
                   login, captureFailures, perf, result>>

(***************************************************************************)
(* Custom steps: perform_custom_steps.                                     *)
(***************************************************************************)
\* main.py: the custom steps are performed, if there are any
BeginCustomSteps ==
    /\ pc = "custom_steps"
    /\ IF settings.custom_steps > 0
       THEN /\ cmd' = [NoCmd EXCEPT !.caller = "custom", !.op = "interactive", !.index = 1,
                                    !.total = settings.custom_steps]
            /\ pc' = "custom_step"
       ELSE /\ cmd' = cmd
            /\ pc' = "collect"
    /\ UNCHANGED <<mouse, keyboard, batch, settings, oracle, llm, calls, vm_id, runVM, vmCount, providerVMs, destroyCalls,
                   exc, acquired, released, screenshots, action_log, input_log,
                   steps_completed, login, captureFailures, perf, result>>

\* one custom step up to the execution of its command: the text oracle
\* turns the description into a command; without a command the step is a
\* screenshot of the current state; an exception makes it a failed step
CustomStep ==
    /\ pc = "custom_step"
    /\ action_log' = Append(action_log, "Custom Step " \o ToString(cmd.index))
    /\ \E translation \in {"command", "empty", "raise"}, ok \in CaptureOutcomes :
          CASE translation = "command" ->
                 /\ ok
                 /\ cmd' = [cmd EXCEPT !.attempt = 1, !.tries = 0, !.errors = 0,
                                       !.failures = 0, !.verification_results = 0,
                                       !.success = FALSE]
                 /\ pc' = "cmd_attempt"
                 /\ UNCHANGED <<screenshots, captureFailures, input_log, steps_completed>>
            [] OTHER ->
                 LET res == IF translation = "empty"
                            THEN CustomResult(cmd.custom_results, cmd.index, TRUE, "")
                            ELSE CustomResult(cmd.custom_results, cmd.index, FALSE, "LLM request failed")
                 IN  /\ IF translation = "empty"
                        THEN /\ screenshots' = Captured(screenshots,
                                    "custom_step_0" \o ToString(cmd.index), ok)
                             /\ captureFailures' = captureFailures + Failures(<<ok>>)
                             /\ input_log' = <<>>
                        ELSE /\ ok
                             /\ UNCHANGED <<screenshots, captureFailures, input_log>>
                     /\ IF LoopGoesOn(cmd.index, cmd.total, translation = "empty")
                        THEN /\ cmd' = [cmd EXCEPT !.index = @ + 1, !.custom_results = res]
                             /\ pc' = "custom_step"
                             /\ steps_completed' = steps_completed
                        ELSE /\ cmd' = [cmd EXCEPT !.custom_results = res]
                             /\ steps_completed' = steps_completed \o res
                             /\ pc' = "collect"
    /\ UNCHANGED <<mouse, keyboard, batch, settings, oracle, llm, calls, vm_id, runVM, vmCount, providerVMs, destroyCalls,
                   exc, acquired, released, login, perf, result>>

\* _perform_verification returns the steps, the screenshots from the login
\* onwards and the action log
Collect ==
    /\ pc = "collect"
    /\ perf' = [set |-> TRUE, steps_completed |-> steps_completed,
                screenshots |-> ScreenshotsFrom(screenshots, {"04_logged_in", "04_login"}),
                action_log |-> action_log, login_failed |-> FALSE, error |-> ""]
    /\ pc' = "vm_close"
    /\ UNCHANGED <<mouse, keyboard, batch, settings, oracle, llm, calls, vm_id, runVM, vmCount, providerVMs, destroyCalls,
                   exc, acquired, released, screenshots, action_log, input_log,
                   steps_completed, login, cmd, captureFailures, result>>

(***************************************************************************)
(* The end of a run: session close, report, result, teardown.              *)
(***************************************************************************)
\* the order in which close() releases the browser resources
CloseOrder == <<"page", "context", "browser", "playwright">>

\* VMAutomation.__exit__ / close: the resources are closed in order; when a
\* close call raises, the remaining ones are skipped and the exception
\* leaves the with-block in place of whatever was leaving it, the value
\* being returned included.  _perform_verification is left: its locals and
\* the VMAutomation object are gone
VMClose ==
    /\ pc = "vm_close"
    /\ \E k \in 0..4 :
          /\ released' = [r \in ResourceSet |->
                            IF \E i \in 1..k : CloseOrder[i] = r /\ r \in acquired
                            THEN released[r] + 1 ELSE released[r]]
          /\ IF k < 4
             THEN /\ exc' = Raise("Error", "Failed to close " \o CloseOrder[k + 1])
                  /\ perf' = NoPerf
                  /\ pc' = "except"
             ELSE /\ exc' = exc
                  /\ perf' = perf
                  /\ pc' = IF exc.type # "none" THEN "except" ELSE "report"
    /\ screenshots' = <<>>
    /\ action_log' = <<>>
    /\ input_log' = <<>>
    /\ steps_completed' = <<>>
    /\ cmd' = NoCmd
    /\ UNCHANGED <<mouse, keyboard, batch, settings, oracle, llm, calls, vm_id, runVM, vmCount, providerVMs, destroyCalls,
                   acquired, login, captureFailures, result>>

\* a success flag that asks for every recorded step to have succeeded
success_of_every_step(verification_results) ==
    /\ ~verification_results.login_failed
    /\ \A i \in DOMAIN verification_results.steps_completed :
           verification_results.steps_completed[i].success

\* the success flag of the result returned after the report: it is decided
\* by login_failed alone
run_success(verification_results) == ~verification_results.login_failed

\* Step 5 and the return statements of run_verification: the report is
\* generated and the result says whether the login failed
GenerateReport ==
    /\ pc = "report"
    /\ \E report_ok \in BOOLEAN :
          IF report_ok
          THEN /\ result' = IF perf.login_failed
                            THEN [set |-> TRUE, success |-> FALSE, login_failed |-> TRUE,
                                  error |-> perf.error, has_results |-> TRUE,
                                  results |-> perf]
                            ELSE [set |-> TRUE, success |-> run_success(perf),
                                  login_failed |-> FALSE,
                                  error |-> "", has_results |-> TRUE, results |-> perf]
               /\ pc' = "finally"
               /\ exc' = exc
          ELSE /\ exc' = Raise("Error", "Failed to write report")
               /\ pc' = "except"
               /\ result' = result
    /\ perf' = NoPerf
    /\ UNCHANGED <<mouse, keyboard, batch, settings, oracle, llm, calls, vm_id, runVM, vmCount, providerVMs, destroyCalls,
                   acquired, released, screenshots, action_log, input_log,
                   steps_completed, login, cmd, captureFailures>>

\* the except clause of run_verification: except Exception, which a
\* KeyboardInterrupt is not
HandleException ==
    /\ pc = "except"
    /\ exc.type # "KeyboardInterrupt"
    /\ result' = [set |-> TRUE, success |-> FALSE, login_failed |-> FALSE,
                  error |-> exc.msg, has_results |-> FALSE, results |-> NoPerf]
    /\ exc' = NoExc
    /\ pc' = "finally"
    /\ UNCHANGED <<mouse, keyboard, batch, settings, oracle, llm, calls, vm_id, runVM, vmCount, providerVMs, destroyCalls,
                   acquired, released, screenshots, action_log, input_log,
                   steps_completed, login, cmd, captureFailures, perf>>

\* a teardown made only for the runs that succeeded
CleanupAfterSuccess == vm_id # 0 /\ result.success

\* the guard of the finally clause: if self.vm_id
CleanupDue == vm_id # 0

\* a destroy_vm that answers True whenever the request went through
destroy_vm_when_request_sent(virt_id, request_ok) == request_ok

\* SlideClient.destroy_vm: True when the DELETE request succeeded, False
\* when _request raised SlideAPIError, as it does when the transport fails
\* or the provider answers with an error status; the provider answers so
\* for a VM it does not have
destroy_vm(virt_id, request_ok) == request_ok /\ virt_id \in providerVMs

\* the finally clause of run_verification and _cleanup_vm: destroy_vm is
\* called when vm_id is set; it answers False when the request fails, as it
\* does for a VM the provider no longer has
Cleanup ==
    /\ pc = "finally"
    /\ IF CleanupDue
       THEN \E request_ok \in BOOLEAN :
               LET destroyed == destroy_vm(vm_id, request_ok)
               IN  /\ destroyCalls' = Append(destroyCalls,
                                             [vm |-> vm_id, returned |-> destroyed])
                   /\ providerVMs' = IF destroyed THEN providerVMs \ {vm_id} ELSE providerVMs
       ELSE UNCHANGED <<destroyCalls, providerVMs>>
    /\ pc' = IF exc.type = "none" THEN "returned" ELSE "interrupted"
    /\ UNCHANGED <<mouse, keyboard, batch, settings, oracle, llm, calls, vm_id, runVM, vmCount, exc, acquired, released,
                   screenshots, action_log, input_log, steps_completed, login, cmd,
                   captureFailures, perf, result>>

(***************************************************************************)
(* Operations called directly on a started session: the attempt loops of   *)
(* run_powershell_interactive, open_services_manager and                   *)
(* open_server_manager, with everything the driver, the captures and the   *)
(* oracle may do.                                                          *)
(***************************************************************************)
Operations == {"interactive", "services", "server_manager"}

\* the control point of the first pass of an operation
FirstPass(op) ==
    CASE op = "interactive" -> "cmd_attempt"
      [] op = "services" -> "services_attempt"
      [] OTHER -> "server_attempt"

\* a caller of the session invokes one of the operations
CallOperation ==
    /\ pc = "session"
    /\ Len(calls) < MaxCalls
    /\ \E op \in Operations :
          /\ cmd' = [NoCmd EXCEPT !.caller = "direct", !.op = op, !.attempt = 1]
          /\ pc' = FirstPass(op)
    /\ UNCHANGED <<mouse, keyboard, batch, settings, oracle, llm, calls, vm_id, runVM, vmCount, providerVMs, destroyCalls,
                   exc, acquired, released, screenshots, action_log, input_log,
                   steps_completed, login, captureFailures, perf, result>>

\* a pass of run_powershell_interactive made for a direct caller
DirectAttempt ==
    /\ cmd.caller = "direct"
    /\ InteractiveAttempt(BOOLEAN, CaptureSeqs(5), oracle.run_dialog, oracle.output)

\* how a pass ends that verified a window: True without a verdict or with a
\* positive one, otherwise another pass while attempts remain
WindowVerified(attempt, verification) ==
    IF verification.isNone \/ verification.verified THEN "true" ELSE RetryOrFail(attempt)

\* open_services_manager: one pass of the attempt loop
ServicesAttempt ==
    /\ pc = "services_attempt"
    /\ cmd.attempt <= max_retries
    /\ \E keys_ok \in BOOLEAN, oks \in CaptureSeqs(3), verdict \in oracle.window :
          LET n == ToString(cmd.attempt)
              verification == CaptureVerdict(oks[3], verdict)
              ends == IF keys_ok THEN WindowVerified(cmd.attempt, verification)
                      ELSE RetryOrFail(cmd.attempt)
          IN  /\ IF keys_ok
                 THEN /\ screenshots' = Captured(Captured(Captured(screenshots,
                                           "05_closed_server_manager_attempt" \o n, oks[1]),
                                           "05_run_dialog_attempt" \o n, oks[2]),
                                           "06_services_manager_attempt" \o n, oks[3])
                      /\ action_log' = action_log \o <<"Open Run dialog", "Launch services.msc">>
                      /\ input_log' = input_log \o
                             <<"click_canvas", "Alt+F4", "click_canvas", "Meta+R",
                               "type:services.msc", "Enter">>
                             \o (IF ends = "continue" THEN <<"Alt+F4">> ELSE <<>>)
                 ELSE /\ oks[2] /\ oks[3]
                      /\ screenshots' = Captured(screenshots,
                                           "06_services_failed_attempt" \o n, oks[1])
                      /\ action_log' = action_log
                      /\ input_log' = Append(input_log, "click_canvas")
              /\ captureFailures' = captureFailures + Failures(oks)
              /\ cmd' = [AfterAttempt(cmd, FALSE, ends # "true", ends)
                             EXCEPT !.verification_results =
                                        IF keys_ok /\ oks[3] THEN @ + 1 ELSE @]
              /\ pc' = IF ends = "continue" THEN "services_attempt" ELSE "cmd_return"
    /\ UNCHANGED <<mouse, keyboard, batch, settings, oracle, llm, calls, vm_id, runVM, vmCount, providerVMs, destroyCalls,
                   exc, acquired, released, steps_completed, login, perf, result>>

\* open_server_manager: one pass of the attempt loop
ServerManagerAttempt ==
    /\ pc = "server_attempt"
    /\ cmd.attempt <= max_retries
    /\ \E ok \in CaptureOutcomes, verdict \in oracle.window :
          LET ends == WindowVerified(cmd.attempt, CaptureVerdict(ok, verdict))
          IN  /\ screenshots' = Captured(screenshots,
                      "08_server_manager_visible_attempt" \o ToString(cmd.attempt), ok)
              /\ captureFailures' = captureFailures + Failures(<<ok>>)
              /\ cmd' = [AfterAttempt(cmd, FALSE, ends # "true", ends)
                             EXCEPT !.verification_results = IF ok THEN @ + 1 ELSE @]
              /\ pc' = IF ends = "continue" THEN "server_attempt" ELSE "cmd_return"
    /\ action_log' = Append(action_log, "Verify Server Manager")
    /\ input_log' = Append(input_log, "click_canvas")
    /\ UNCHANGED <<mouse, keyboard, batch, settings, oracle, llm, calls, vm_id, runVM, vmCount, providerVMs, destroyCalls,
                   exc, acquired, released, steps_completed, login, perf, result>>

\* the operation returns to its direct caller
DirectReturn ==
    /\ pc = "cmd_return"
    /\ cmd.caller = "direct"
    /\ calls' = Append(calls, [op |-> cmd.op, tries |-> cmd.tries, errors |-> cmd.errors,
                               failures |-> cmd.failures, returned |-> cmd.success])
    /\ cmd' = NoCmd
    /\ input_log' = <<>>
    /\ pc' = "session"
    /\ UNCHANGED <<mouse, keyboard, batch, settings, oracle, llm, vm_id, runVM, vmCount, providerVMs, destroyCalls,
                   exc, acquired, released, screenshots, action_log,
                   steps_completed, login, captureFailures, perf, result>>

(***************************************************************************)
(* The initial state and the specification of a run.                       *)
(***************************************************************************)
LoginScreenVerdicts == { SomeVerdict(verify_ui_state(r)) : r \in PollReplies }
LoginVerifyVerdicts == { SomeVerdict(verify_ui_state(r)) : r \in LoginVerifyReplies }
RunDialogVerdicts == { SomeVerdict(verify_ui_state(r)) : r \in RunDialogReplies }
OutputVerdicts == { SomeVerdict(verify_ui_state(r)) : r \in OutputReplies }
WindowVerdicts == { SomeVerdict(verify_ui_state(r)) : r \in WindowReplies }

\* what verify_ui_state and detect_login_fields hand back for the replies
\* the vision model may give at each consultation (without a screenshot
\* file the analysis fails like a failed API call), and the tables of what
\* login_verdict, screen_locked, has_negation and command_has_error make of
\* them
OracleAnswers ==
    [login_screen |-> LoginScreenVerdicts,
     login_fields |-> { [reply |-> r, fields |-> detect_login_fields(r)] : r \in FieldReplies },
     switched_fields |-> { detect_login_fields(r) : r \in SwitchReplies },
     no_screenshot |-> [reply |-> ApiErrorReply, fields |-> detect_login_fields(ApiErrorReply)],
     login_verify |-> LoginVerifyVerdicts,
     login_verdict |-> [v \in LoginVerifyVerdicts \cup {NoVerdict} |-> login_verdict(v)],
     login_verify_unlabelled |->
         { SomeVerdict(verify_ui_state(r)) :
             r \in { q \in LoginVerifyReplies :
                        /\ ~analyze_screenshot(q).isNone
                        /\ ~HasLabelledField(analyze_screenshot(q).val) } },
     login_failure_phrase |-> [v \in LoginVerifyVerdicts |-> login_failure_phrase(v)],
     run_dialog |-> RunDialogVerdicts,
     screen_locked |-> [v \in RunDialogVerdicts |-> screen_locked(v)],
     window |-> WindowVerdicts,
     output |-> OutputVerdicts,
     has_negation |-> [v \in OutputVerdicts |-> has_negation(v)],
     command_has_error |-> [v \in OutputVerdicts \cup {NoVerdict} |-> command_has_error(v)]]

Init ==
    /\ pc = "idle"
    /\ vm_id = 0
    /\ runVM = 0
    /\ vmCount = 0
    /\ providerVMs = {}
    /\ destroyCalls = <<>>
    /\ exc = NoExc
    /\ acquired = {}
    /\ released = [r \in ResourceSet |-> 0]
    /\ screenshots = <<>>
    /\ action_log = <<>>
    /\ input_log = <<>>
    /\ steps_completed = <<>>
    /\ login = NoLogin
    /\ cmd = NoCmd
    /\ captureFailures = 0
    /\ perf = NoPerf
    /\ result = NoResult
    /\ settings \in SettingsSet
    /\ oracle = OracleAnswers
    /\ llm = NoLLM
    /\ calls = <<>>
    /\ batch = NoBatch
    /\ keyboard = NoKeyboard
    /\ mouse = NoMouse

Next ==
    \/ StartRun
    \/ GetLatestSnapshot
    \/ CreateVM
    \/ WaitForVMReady
    \/ GetNovncUrl
    \/ VMStart
    \/ ConnectToVM
    \/ WaitForWindowsDesktop
    \/ LoginStart
    \/ LoginPoll
    \/ LoginScreenTimeout
    \/ LoginDetectFields
    \/ LoginSwitchUser
    \/ LoginEnterCredentials
    \/ LoginSubmit
    \/ LoginFinish
    \/ LoginFailedReturn
    \/ BeginCommands
    \/ CommandAttempt
    \/ CommandReturn
    \/ BeginCustomSteps
    \/ CustomStep
    \/ Collect
    \/ VMClose
    \/ GenerateReport
    \/ HandleException
    \/ Cleanup

Spec == Init /\ [][Next]_vars

\* the run is one sequential program: while it has a next step it takes it
SpecFair == Init /\ [][Next]_vars /\ WF_vars(Next)

(***************************************************************************)
(* A run that an interrupt signal (SIGINT, which Python delivers as        *)
(* KeyboardInterrupt) reaches while it waits inside the session.           *)
(***************************************************************************)
\* the places of _perform_verification where the run sleeps, polls for the
\* login screen or waits for the oracle
SuspensionPoints ==
    {"connect", "wait_desktop", "login_wait", "login_detect", "login_submit",
     "cmd_attempt", "custom_step"}

\* KeyboardInterrupt is raised at a suspension point: no except Exception
\* clause of the session catches it, and it leaves the with-block
Interrupt ==
    /\ pc \in SuspensionPoints
    /\ exc.type = "none"
    /\ exc' = Raise("KeyboardInterrupt", "")
    /\ pc' = "vm_close"
    /\ UNCHANGED <<mouse, keyboard, batch, settings, oracle, llm, calls, vm_id, runVM, vmCount, providerVMs,
                   destroyCalls, acquired, released, screenshots, action_log, input_log,
                   steps_completed, login, cmd, captureFailures, perf, result>>

\* the except Exception clause of run_verification is passed over: the
\* KeyboardInterrupt goes on to the finally clause and then to the caller
PassExcept ==
    /\ pc = "except"
    /\ exc.type = "KeyboardInterrupt"
    /\ pc' = "finally"
    /\ UNCHANGED <<mouse, keyboard, batch, settings, oracle, llm, calls, vm_id, runVM, vmCount, providerVMs,
                   destroyCalls, exc, acquired, released, screenshots, action_log, input_log,
                   steps_completed, login, cmd, captureFailures, perf, result>>

NextInterrupted ==
    \/ Next
    \/ Interrupt
    \/ PassExcept

SpecInterrupted == Init /\ [][NextInterrupted]_vars

\* a session that VMAutomation.start() has brought up, used directly
\* a getter that hands out the session's own list
get_screenshots_shared == [list |-> screenshots, shared |-> TRUE]

\* get_screenshots: a copy of the session's list; what the caller holds
\* shares nothing with it
get_screenshots == [list |-> screenshots, shared |-> FALSE]

\* get_action_log: a copy of the session's log
get_action_log == [list |-> action_log, shared |-> FALSE]

\* a caller of the session takes the two lists from the getters and empties
\* what it was handed; the session's own lists change only if they are
\* shared with the caller
CallerAltersLists ==
    /\ pc = "session"
    /\ \A i \in DOMAIN calls : calls[i].op # "get_lists"
    /\ screenshots' = IF get_screenshots.shared THEN <<>> ELSE screenshots
    /\ action_log' = IF get_action_log.shared THEN <<>> ELSE action_log
    /\ calls' = Append(calls, [op |-> "get_lists", tries |-> 0, errors |-> 0,
                               failures |-> 0, returned |-> TRUE])
    /\ UNCHANGED <<mouse, keyboard, batch, settings, oracle, llm, vm_id, runVM, vmCount, providerVMs, destroyCalls,
                   exc, acquired, released, input_log, steps_completed, login, cmd,
                   captureFailures, perf, result, pc>>

\* _capture_screenshot called on the session: page.screenshot saves the
\* file or raises; with a state to verify the oracle gives a verdict, or
\* the verification raises and is logged; the call returns the path and the
\* verdict and raises nothing
CaptureScreenshot ==
    /\ pc = "session"
    /\ \A i \in DOMAIN calls : calls[i].op # "capture"
    /\ \E name \in {"custom_step_01"}, ok \in BOOLEAN, verify_state \in BOOLEAN,
          verification \in oracle.window \cup {NoVerdict} :
          /\ screenshots' = Captured(screenshots, name, ok)
          /\ captureFailures' = captureFailures + Failures(<<ok>>)
          /\ calls' = Append(calls,
                 [op |-> "capture", tries |-> 1, errors |-> 0, failures |-> Failures(<<ok>>),
                  returned |-> TRUE, path |-> CapturePath(name, ok),
                  verdict |-> CaptureVerdict(ok, IF verify_state THEN verification
                                                 ELSE NoVerdict)])
    /\ UNCHANGED <<mouse, keyboard, batch, settings, oracle, llm, vm_id, runVM, vmCount, providerVMs, destroyCalls,
                   exc, acquired, released, action_log, input_log, steps_completed, login,
                   cmd, perf, result, pc>>

InitOps ==
    /\ pc = "session"
    /\ vm_id = 0
    /\ runVM = 0
    /\ vmCount = 0
    /\ providerVMs = {}
    /\ destroyCalls = <<>>
    /\ exc = NoExc
    /\ acquired = ResourceSet
    /\ released = [r \in ResourceSet |-> 0]
    /\ screenshots = <<>>
    /\ action_log = <<>>
    /\ input_log = <<>>
    /\ steps_completed = <<>>
    /\ login = NoLogin
    /\ cmd = NoCmd
    /\ captureFailures = 0
    /\ perf = NoPerf
    /\ result = NoResult
    /\ settings \in SettingsSet
    /\ settings.ps_commands = 0 /\ settings.custom_steps = 0
    /\ settings.vm_login_screen_timeout = 10
    /\ settings.windows_username = "administrator"
    /\ oracle = OracleAnswers
    /\ llm = NoLLM
    /\ calls = <<>>
    /\ batch = NoBatch
    /\ keyboard = NoKeyboard
    /\ mouse = NoMouse

NextOps ==
    \/ CallOperation
    \/ DirectAttempt
    \/ ServicesAttempt
    \/ ServerManagerAttempt
    \/ DirectReturn
    \/ CallerAltersLists
    \/ CaptureScreenshot

SpecOps == InitOps /\ [][NextOps]_vars

(***************************************************************************)
(* The oracle adapter called directly: verify_ui_state and                 *)
(* detect_login_fields on whatever the vision model replies.               *)
(***************************************************************************)
\* replies that lack some of the labelled fields or give them no usable value
MalformedReplies ==
    { TextReply("VERIFIED: yes\nCONFIDENCE: high"),
      TextReply("VERIFIED: yes\nDESCRIPTION: Desktop"),
      TextReply("VERIFIED: yes\nCONFIDENCE: certain\nDESCRIPTION: Desktop"),
      TextReply("verified: yes\nconfidence: Medium\ndescription: Desktop"),
      TextReply("USERNAME_FIELD: yes\nPASSWORD_FIELD: yes"),
      TextReply("USERNAME_FIELD: yes\nDESCRIPTION: Other user form"),
      TextReply("PASSWORD_FIELD: no\nDESCRIPTION: Tiles only") }

\* everything the vision model may reply to a screenshot
OracleReplies ==
    PollReplies \cup LoginVerifyReplies \cup RunDialogReplies \cup OutputReplies
        \cup WindowReplies \cup FieldReplies \cup SwitchReplies \cup MalformedReplies

\* a caller hands a screenshot to one of the two functions and the vision
\* model replies
AskOracle ==
    /\ pc = "llm_idle"
    /\ Len(calls) < MaxCalls
    /\ \E op \in {"verify_ui_state", "detect_login_fields"}, reply \in OracleReplies :
          /\ llm' = [NoLLM EXCEPT !.op = op, !.reply = reply]
          /\ pc' = op
    /\ UNCHANGED <<mouse, keyboard, batch, settings, oracle, calls, vm_id, runVM, vmCount, providerVMs, destroyCalls,
                   exc, acquired, released, screenshots, action_log, input_log,
                   steps_completed, login, cmd, captureFailures, perf, result>>

\* LLMClient.verify_ui_state parses the reply
VerifyUIState ==
    /\ pc = "verify_ui_state"
    /\ llm' = [llm EXCEPT !.verdict = verify_ui_state(llm.reply)]
    /\ pc' = "llm_return"
    /\ UNCHANGED <<mouse, keyboard, batch, settings, oracle, calls, vm_id, runVM, vmCount, providerVMs, destroyCalls,
                   exc, acquired, released, screenshots, action_log, input_log,
                   steps_completed, login, cmd, captureFailures, perf, result>>

\* LLMClient.detect_login_fields parses the reply
DetectLoginFields ==
    /\ pc = "detect_login_fields"
    /\ llm' = [llm EXCEPT !.fields = detect_login_fields(llm.reply)]
    /\ pc' = "llm_return"
    /\ UNCHANGED <<mouse, keyboard, batch, settings, oracle, calls, vm_id, runVM, vmCount, providerVMs, destroyCalls,
                   exc, acquired, released, screenshots, action_log, input_log,
                   steps_completed, login, cmd, captureFailures, perf, result>>

\* the function returns its dictionary to the caller
OracleReturn ==
    /\ pc = "llm_return"
    /\ calls' = Append(calls, llm)
    /\ llm' = NoLLM
    /\ pc' = "llm_idle"
    /\ UNCHANGED <<mouse, keyboard, batch, settings, oracle, vm_id, runVM, vmCount, providerVMs, destroyCalls,
                   exc, acquired, released, screenshots, action_log, input_log,
                   steps_completed, login, cmd, captureFailures, perf, result>>

\* an LLMClient as __init__ leaves it
InitOracle ==
    /\ pc = "llm_idle"
    /\ vm_id = 0
    /\ runVM = 0
    /\ vmCount = 0
    /\ providerVMs = {}
    /\ destroyCalls = <<>>
    /\ exc = NoExc
    /\ acquired = {}
    /\ released = [r \in ResourceSet |-> 0]
    /\ screenshots = <<>>
    /\ action_log = <<>>
    /\ input_log = <<>>
    /\ steps_completed = <<>>
    /\ login = NoLogin
    /\ cmd = NoCmd
    /\ captureFailures = 0
    /\ perf = NoPerf
    /\ result = NoResult
    /\ settings \in SettingsSet
    /\ settings.ps_commands = 0 /\ settings.custom_steps = 0
    /\ settings.vm_login_screen_timeout = 10
    /\ settings.windows_username = "administrator"
    /\ oracle = OracleAnswers
    /\ llm = NoLLM
    /\ calls = <<>>
    /\ batch = NoBatch
    /\ keyboard = NoKeyboard
    /\ mouse = NoMouse

NextOracle ==
    \/ AskOracle
    \/ VerifyUIState
    \/ DetectLoginFields
    \/ OracleReturn

SpecOracle == InitOracle /\ [][NextOracle]_vars

(***************************************************************************)
(* A batch: run_verification_for_all_agents runs run_verification once per *)
(* agent that has a snapshot, with no literal commands and no custom steps.*)
(***************************************************************************)
\* get_latest_snapshots_by_agent: the agents to verify; without any the
\* batch returns an empty list, and a provider error leaves the batch
BatchStart ==
    /\ pc = "batch_idle"
    /\ \E outcome \in {"snapshots", "none", "api_error"} :
          CASE outcome = "snapshots" ->
                 /\ \E n \in 1..MaxAgents :
                        batch' = [agents |-> n, agent |-> 1, results |-> <<>>]
                 /\ pc' = "idle"
                 /\ exc' = exc
            [] outcome = "none" ->
                 /\ batch' = batch
                 /\ pc' = "batch_returned"
                 /\ exc' = exc
            [] OTHER ->
                 /\ batch' = batch
                 /\ pc' = "batch_raised"
                 /\ exc' = Raise("SlideAPIError", "API request failed")
    /\ UNCHANGED <<mouse, keyboard, settings, oracle, llm, calls, vm_id, runVM, vmCount, providerVMs,
                   destroyCalls, acquired, released, screenshots, action_log, input_log,
                   steps_completed, login, cmd, captureFailures, perf, result>>

\* a loop over the agents that stops at the first run that did not succeed
NextAgentAfterSuccess(agent, agents, ok) == agent < agents /\ ok

\* the for loop over snapshots_by_agent: the next agent is taken while
\* there is one, whatever the outcome ok of the run before
NextAgent(agent, agents, ok) == agent < agents

\* run_verification has returned to the batch: its result is appended with
\* the agent's id, and the loop goes on or the batch returns the results;
\* the frame of the run is gone, the orchestrator's vm_id stays
BatchNext ==
    /\ pc = "returned"
    /\ batch.agents > 0
    /\ result.set
    /\ batch' = [batch EXCEPT
                    !.results = Append(@, [agent_id |-> batch.agent,
                                           success |-> result.success]),
                    !.agent = IF NextAgent(batch.agent, batch.agents, result.success)
                              THEN @ + 1 ELSE @]
    /\ pc' = IF NextAgent(batch.agent, batch.agents, result.success)
             THEN "idle" ELSE "batch_returned"
    /\ result' = NoResult
    /\ login' = NoLogin
    /\ acquired' = {}
    /\ released' = [r \in ResourceSet |-> 0]
    /\ captureFailures' = 0
    /\ runVM' = 0
    /\ UNCHANGED <<mouse, keyboard, settings, oracle, llm, calls, vm_id, vmCount, providerVMs, destroyCalls,
                   exc, screenshots, action_log, input_log, steps_completed, cmd, perf>>

InitBatch ==
    /\ pc = "batch_idle"
    /\ vm_id = 0
    /\ runVM = 0
    /\ vmCount = 0
    /\ providerVMs = {}
    /\ destroyCalls = <<>>
    /\ exc = NoExc
    /\ acquired = {}
    /\ released = [r \in ResourceSet |-> 0]
    /\ screenshots = <<>>
    /\ action_log = <<>>
    /\ input_log = <<>>
    /\ steps_completed = <<>>
    /\ login = NoLogin
    /\ cmd = NoCmd
    /\ captureFailures = 0
    /\ perf = NoPerf
    /\ result = NoResult
    /\ settings \in SettingsSet
    /\ settings.ps_commands = 0 /\ settings.custom_steps = 0
    /\ settings.vm_login_screen_timeout = 10
    /\ settings.windows_username = "administrator"
    /\ oracle = OracleAnswers
    /\ llm = NoLLM
    /\ calls = <<>>
    /\ batch = NoBatch
    /\ keyboard = NoKeyboard
    /\ mouse = NoMouse

NextBatch ==
    \/ BatchStart
    \/ BatchNext
    \/ StartRun
    \/ GetLatestSnapshot
    \/ CreateVM
    \/ WaitForVMReady
    \/ GetNovncUrl
    \/ VMStart
    \/ ConnectToVM
    \/ WaitForWindowsDesktop
    \/ LoginStart
    \/ LoginPoll
    \/ LoginScreenTimeout
    \/ LoginDetectFields
    \/ LoginSwitchUser
    \/ LoginEnterCredentials
    \/ LoginSubmit
    \/ LoginFinish
    \/ LoginFailedReturn
    \/ BeginCommands
    \/ BeginCustomSteps
    \/ Collect
    \/ VMClose
    \/ GenerateReport
    \/ HandleException
    \/ Cleanup

SpecBatch == InitBatch /\ [][NextBatch]_vars

(***************************************************************************)
(* Typing: how the protocols send the username, the password and a command *)
(* to the remote session, key by key.                                      *)
(***************************************************************************)
\* _type_char_vnc: the characters that need Shift on a US keyboard, with
\* their base keys (the base key of "~", the backquote, is written by its
\* key name)
shift_chars ==
    [c \in {"!", "@", "#", "$", "%", "^", "&", "*", "(", ")", "_", "+", "{", "}", "|",
             ":", "\"", "<", ">", "?", "~"} |->
        CASE c = "!" -> "1" [] c = "@" -> "2" [] c = "#" -> "3" [] c = "$" -> "4"
          [] c = "%" -> "5" [] c = "^" -> "6" [] c = "&" -> "7" [] c = "*" -> "8"
          [] c = "(" -> "9" [] c = ")" -> "0" [] c = "_" -> "-" [] c = "+" -> "="
          [] c = "{" -> "[" [] c = "}" -> "]" [] c = "|" -> "\\" [] c = ":" -> ";"
          [] c = "\"" -> "'" [] c = "<" -> "," [] c = ">" -> "." [] c = "?" -> "/"
          [] OTHER -> "Backquote"]

\* str.isupper for one character
IsUpper(char) == char \in DOMAIN LowerOf

\* _type_char_vnc: the key events sent for one character; an uppercase
\* letter or a shifted symbol is sent as Shift down, the base key, Shift up,
\* any other character as one keystroke; the keyboard call number fails_at
\* (0: none) raises, which is logged, and the calls after it are not made
_type_char_vnc(char, fails_at) ==
    IF IsUpper(char) \/ char \in DOMAIN shift_chars
    THEN LET base_key == IF IsUpper(char) THEN LowChar(char) ELSE shift_chars[char]
             events == <<"down:Shift", "type:" \o base_key, "up:Shift">>
         IN  IF fails_at = 0 THEN events ELSE SubSeq(events, 1, fails_at - 1)
    ELSE IF fails_at = 1 THEN <<>> ELSE <<"type:" \o char>>

\* the texts the protocols type: the username and the password of
\* login_windows, the command of run_powershell_interactive
Passwords == {"Passw0rd!", "secret"}
Commands == {"Get-Date", "dir | more"}

\* the keyboard calls that may fail for the next character
KeyFailures(calls_made) ==
    IF keyboard.failures < MaxKeyFailures THEN 0..calls_made ELSE {0}

\* login_windows types the next character of the username with
\* keyboard.type; a failure of the call leaves login_windows
TypeUsernameChar ==
    /\ pc = "typing"
    /\ keyboard.field = "username"
    /\ keyboard.typed < Len(keyboard.text)
    /\ LET char == CharAt(keyboard.text, keyboard.typed + 1)
       IN  \E fails_at \in KeyFailures(1) :
              IF fails_at = 0
              THEN /\ input_log' = Append(input_log, "type:" \o char)
                   /\ keyboard' = [keyboard EXCEPT !.typed = @ + 1]
                   /\ pc' = IF keyboard.typed + 1 = Len(keyboard.text) THEN "typed" ELSE "typing"
                   /\ exc' = exc
              ELSE /\ input_log' = input_log
                   /\ keyboard' = [keyboard EXCEPT !.failures = @ + 1]
                   /\ pc' = "typing_raised"
                   /\ exc' = Raise("Error", "keyboard.type: Target closed")
    /\ UNCHANGED <<mouse, batch, settings, oracle, llm, calls, vm_id, runVM, vmCount, providerVMs,
                   destroyCalls, acquired, released, screenshots, action_log,
                   steps_completed, login, cmd, captureFailures, perf, result>>

\* the password and the command are typed through _type_char_vnc, whose
\* failures are logged and skipped
TypeCharVNC ==
    /\ pc = "typing"
    /\ keyboard.field \in {"password", "command"}
    /\ keyboard.typed < Len(keyboard.text)
    /\ LET char == CharAt(keyboard.text, keyboard.typed + 1)
           calls_made == IF IsUpper(char) \/ char \in DOMAIN shift_chars THEN 3 ELSE 1
       IN  \E fails_at \in KeyFailures(calls_made) :
              /\ input_log' = input_log \o _type_char_vnc(char, fails_at)
              /\ keyboard' = [keyboard EXCEPT !.typed = @ + 1,
                                              !.failures = IF fails_at = 0 THEN @ ELSE @ + 1]
    /\ pc' = IF keyboard.typed + 1 = Len(keyboard.text) THEN "typed" ELSE "typing"
    /\ UNCHANGED <<mouse, batch, settings, oracle, llm, calls, vm_id, runVM, vmCount, providerVMs,
                   destroyCalls, exc, acquired, released, screenshots, action_log,
                   steps_completed, login, cmd, captureFailures, perf, result>>

InitTyping ==
    /\ pc = "typing"
    /\ keyboard \in { [field |-> "username", text |-> t, typed |-> 0, failures |-> 0] :
                          t \in Usernames }
                 \cup { [field |-> "password", text |-> t, typed |-> 0, failures |-> 0] :
                          t \in Passwords }
                 \cup { [field |-> "command", text |-> t, typed |-> 0, failures |-> 0] :
                          t \in Commands }
    /\ vm_id = 0
    /\ runVM = 0
    /\ vmCount = 0
    /\ providerVMs = {}
    /\ destroyCalls = <<>>
    /\ exc = NoExc
    /\ acquired = ResourceSet
    /\ released = [r \in ResourceSet |-> 0]
    /\ screenshots = <<>>
    /\ action_log = <<>>
    /\ input_log = <<>>
    /\ steps_completed = <<>>
    /\ login = NoLogin
    /\ cmd = NoCmd
    /\ captureFailures = 0
    /\ perf = NoPerf
    /\ result = NoResult
    /\ settings \in SettingsSet
    /\ settings.ps_commands = 0 /\ settings.custom_steps = 0
    /\ settings.vm_login_screen_timeout = 10
    /\ settings.windows_username = "administrator"
    /\ oracle = OracleAnswers
    /\ llm = NoLLM
    /\ calls = <<>>
    /\ batch = NoBatch
    /\ mouse = NoMouse

NextTyping ==
    \/ TypeUsernameChar
    \/ TypeCharVNC

SpecTyping == InitTyping /\ [][NextTyping]_vars

(***************************************************************************)
(* Clicks: how a point of the 1920x1080 reference frame is turned into a   *)
(* position on the page.  Positions are exact: a horizontal position is    *)
(* counted in units of 1/vnc_width pixel, a vertical one in units of       *)
(* 1/vnc_height pixel, so that x * (width / vnc_width) is x * width units. *)
(***************************************************************************)
vnc_width == 1920
vnc_height == 1080

\* a click position whose scale factor is a whole number
click_x_whole_scale(bbox, x) == (bbox.x + x * (bbox.width \div vnc_width)) * vnc_width

\* click_x = bbox['x'] + (x * scale_x), in units of 1/vnc_width pixel
click_x(bbox, x) == bbox.x * vnc_width + x * bbox.width

\* click_y = bbox['y'] + (y * scale_y), in units of 1/vnc_height pixel
click_y(bbox, y) == bbox.y * vnc_height + y * bbox.height

\* the boxes bounding_box reports for a rendered canvas: an origin on the
\* page and a size that is not empty
CanvasBoxes ==
    [x : {0, 8}, y : {0, 64}, width : {800, 1920, 2560}, height : {450, 1080, 1440}]

\* what query_selector and bounding_box find: a canvas with a box, a
\* canvas without one, no canvas, or a driver that raises
Canvases == {"box", "no_box", "none", "raises"}

\* points of the reference frame
FrameXs == {0, 1, 150, 960, 1919, 1920}
FrameYs == {0, 1, 540, 1000, 1080}

\* _click_vnc_at_coordinates: with a canvas box the click goes to the scaled
\* position; without a box to the canvas itself, without a canvas to the
\* page centre; when the driver raises, _click_vnc_canvas is the fallback
ClickVNCAtCoordinates ==
    /\ pc = "canvas"
    /\ \E x \in FrameXs, y \in FrameYs :
          mouse' = CASE mouse.canvas = "box" ->
                          [mouse EXCEPT !.op = "_click_vnc_at_coordinates", !.x = x, !.y = y,
                                        !.target = "page",
                                        !.page_x = click_x(mouse.bbox, x),
                                        !.page_y = click_y(mouse.bbox, y)]
                     [] mouse.canvas = "none" ->
                          [mouse EXCEPT !.op = "_click_vnc_at_coordinates", !.x = x, !.y = y,
                                        !.target = "page",
                                        !.page_x = 960 * vnc_width,
                                        !.page_y = 540 * vnc_height]
                     [] OTHER ->
                          [mouse EXCEPT !.op = "_click_vnc_at_coordinates", !.x = x, !.y = y,
                                        !.target = "canvas"]
    /\ pc' = "clicked"
    /\ UNCHANGED <<keyboard, batch, settings, oracle, llm, calls, vm_id, runVM, vmCount, providerVMs,
                   destroyCalls, exc, acquired, released, screenshots, action_log, input_log,
                   steps_completed, login, cmd, captureFailures, perf, result>>

\* _get_page_coords_from_vnc: the scaled position with a canvas box, the
\* reference-frame point itself otherwise
GetPageCoordsFromVNC ==
    /\ pc = "canvas"
    /\ \E x \in FrameXs, y \in FrameYs :
          mouse' = IF mouse.canvas = "box"
                   THEN [mouse EXCEPT !.op = "_get_page_coords_from_vnc", !.x = x, !.y = y,
                                      !.page_x = click_x(mouse.bbox, x),
                                      !.page_y = click_y(mouse.bbox, y)]
                   ELSE [mouse EXCEPT !.op = "_get_page_coords_from_vnc", !.x = x, !.y = y,
                                      !.page_x = x * vnc_width, !.page_y = y * vnc_height]
    /\ pc' = "converted"
    /\ UNCHANGED <<keyboard, batch, settings, oracle, llm, calls, vm_id, runVM, vmCount, providerVMs,
                   destroyCalls, exc, acquired, released, screenshots, action_log, input_log,
                   steps_completed, login, cmd, captureFailures, perf, result>>

InitCanvas ==
    /\ pc = "canvas"
    /\ mouse \in { [NoMouse EXCEPT !.canvas = "box", !.bbox = b] : b \in CanvasBoxes }
               \cup { [NoMouse EXCEPT !.canvas = c] : c \in Canvases \ {"box"} }
    /\ keyboard = NoKeyboard
    /\ vm_id = 0
    /\ runVM = 0
    /\ vmCount = 0
    /\ providerVMs = {}
    /\ destroyCalls = <<>>
    /\ exc = NoExc
    /\ acquired = ResourceSet
    /\ released = [r \in ResourceSet |-> 0]
    /\ screenshots = <<>>
    /\ action_log = <<>>
    /\ input_log = <<>>
    /\ steps_completed = <<>>
    /\ login = NoLogin
    /\ cmd = NoCmd
    /\ captureFailures = 0
    /\ perf = NoPerf
    /\ result = NoResult
    /\ settings \in SettingsSet
    /\ settings.ps_commands = 0 /\ settings.custom_steps = 0
    /\ settings.vm_login_screen_timeout = 10
    /\ settings.windows_username = "administrator"
    /\ oracle = OracleAnswers
    /\ llm = NoLLM
    /\ calls = <<>>
    /\ batch = NoBatch

NextCanvas ==
    \/ ClickVNCAtCoordinates
    \/ GetPageCoordsFromVNC

SpecCanvas == InitCanvas /\ [][NextCanvas]_vars

(***************************************************************************)
(* The provider client used directly: VMs are created and destroy_vm is    *)
(* called on their handles any number of times.                            *)
(***************************************************************************)
\* create_vm: the provider creates a VM and hands out its handle
ClientCreateVM ==
    /\ pc = "client"
    /\ vmCount < MaxHandles
    /\ vmCount' = vmCount + 1
    /\ providerVMs' = providerVMs \cup {vmCount + 1}
    /\ UNCHANGED <<pc, mouse, keyboard, batch, settings, oracle, llm, calls, vm_id, runVM, destroyCalls, exc, acquired,
                   released, screenshots, action_log, input_log, steps_completed, login,
                   cmd, captureFailures, perf, result>>

\* destroy_vm is called on a handle that was handed out, whether the VM
\* still exists or not; the call returns its boolean to the caller
ClientDestroyVM ==
    /\ pc = "client"
    /\ Len(destroyCalls) < MaxDestroyCalls
    /\ \E virt_id \in 1..vmCount, request_ok \in BOOLEAN :
          LET destroyed == destroy_vm(virt_id, request_ok)
          IN  /\ destroyCalls' = Append(destroyCalls, [vm |-> virt_id, returned |-> destroyed])
              /\ providerVMs' = IF destroyed THEN providerVMs \ {virt_id} ELSE providerVMs
    /\ UNCHANGED <<pc, mouse, keyboard, batch, settings, oracle, llm, calls, vm_id, runVM, vmCount, exc, acquired,
                   released, screenshots, action_log, input_log, steps_completed, login,
                   cmd, captureFailures, perf, result>>

InitClient ==
    /\ pc = "client"
    /\ vm_id = 0
    /\ runVM = 0
    /\ vmCount = 0
    /\ providerVMs = {}
    /\ destroyCalls = <<>>
    /\ exc = NoExc
    /\ acquired = {}
    /\ released = [r \in ResourceSet |-> 0]
    /\ screenshots = <<>>
    /\ action_log = <<>>
    /\ input_log = <<>>
    /\ steps_completed = <<>>
    /\ login = NoLogin
    /\ cmd = NoCmd
    /\ captureFailures = 0
    /\ perf = NoPerf
    /\ result = NoResult
    /\ settings \in SettingsSet
    /\ settings.ps_commands = 0 /\ settings.custom_steps = 0
    /\ settings.vm_login_screen_timeout = 10
    /\ settings.windows_username = "administrator"
    /\ oracle = OracleAnswers
    /\ llm = NoLLM
    /\ calls = <<>>
    /\ batch = NoBatch
    /\ keyboard = NoKeyboard
    /\ mouse = NoMouse

NextClient ==
    \/ ClientCreateVM
    \/ ClientDestroyVM

SpecClient == InitClient /\ [][NextClient]_vars

(***************************************************************************)
(* Properties of a run (Spec) and of the operations (SpecOps).             *)
(***************************************************************************)
\* C1: a full run whose login-screen polls never get a positive verdict
\* within the configured timeout returns success=false with
\* login_failed=true and a non-empty action log in its results, and
\* destroy_vm is called exactly once for the VM the run created
LoginNeverConfirmedRun ==
    (pc = "returned" /\ login.outcome # "" /\ login.first_positive = 0) =>
        /\ result.set /\ ~result.success /\ result.login_failed
        /\ result.has_results /\ result.results.action_log # <<>>
        /\ Cardinality({i \in DOMAIN destroyCalls : destroyCalls[i].vm = runVM}) = 1

\* C2: whenever run_verification returns after it created a VM, whatever
\* the way it ends, destroy_vm has been called for that VM
TeardownOnEveryExit ==
    (pc = "returned" /\ runVM # 0) =>
        \E i \in DOMAIN destroyCalls : destroyCalls[i].vm = runVM

\* a run that created its VM, failed to write the report and returned
\* after the teardown
TeardownAfterReportFailure ==
    /\ pc = "returned" /\ runVM # 0
    /\ result.set /\ ~result.success /\ result.error = "Failed to write report"
    /\ \E i \in DOMAIN destroyCalls : destroyCalls[i].vm = runVM

\* C3: once _perform_verification has exited, every browser resource that
\* start() acquired has been released exactly once
SessionReleasedOnEveryExit ==
    pc \in {"report", "except", "finally", "returned"} =>
        \A r \in acquired : released[r] = 1

\* C4: a literal command whose output was classified as an error on every
\* attempt has been attempted exactly 2 times when run_powershell_interactive
\* returns, it returns failure, the orchestrator appends exactly one step
\* with success=false for it and no exception is raised
RetryCapOfCommand ==
    [][(pc = "cmd_return" /\ cmd.caller = "literal" /\ cmd.errors = cmd.tries) =>
          /\ cmd.tries = 2 /\ ~cmd.success /\ exc = NoExc
          /\ Len(steps_completed') = Len(steps_completed) + 1
          /\ steps_completed'[Len(steps_completed')].kind = "command"
          /\ ~steps_completed'[Len(steps_completed')].success
          /\ exc' = NoExc /\ pc' # "except"]_vars

\* run_powershell_interactive returns to the orchestrator after two
\* attempts whose output was an error
CommandFailedTwice ==
    /\ pc = "cmd_return" /\ cmd.caller = "literal"
    /\ cmd.tries = 2 /\ cmd.errors = 2 /\ ~cmd.success

ConfirmedOnceAfterNPolls ==
    login.first_positive > 0 =>
        /\ login.attempts = login.first_positive
        /\ login.first_positive <= settings.vm_login_screen_timeout \div 10
        /\ login.wake_polls = {p \in 1..login.first_positive : p = 1 \/ p % 3 = 0}
        /\ login.detections = IF pc = "login_detect" THEN 0 ELSE 1

\* the login screen was confirmed on the sixth poll and the fields detected
ConfirmedOnSixthPoll ==
    /\ login.first_positive = 6 /\ login.detections = 1
    /\ login.wake_polls = {1, 3, 6}

\* C7: when none of the floor(timeout/10) polls got a positive verdict,
\* login_windows makes no field detection, no user switch, no credential
\* entry and no submit, and ends in no other way than the login-screen
\* timeout
TimeoutWithoutConfirmation ==
    (/\ pc \notin {"login_start", "login_wait"}
     /\ login.attempts = settings.vm_login_screen_timeout \div 10
     /\ login.first_positive = 0) =>
        /\ login.detections = 0 /\ login.switches = 0
        /\ login.mode = "" /\ login.submits = 0
        /\ login.outcome \in {"", "LoginScreenTimeout"}

\* C8: the outcome of the submit is that of the first rule that matches:
\* verified, then a benign phrase (success), then a failure phrase
\* (failure), then low confidence or an empty description (success), then
\* failure
VerdictPriority ==
    (pc \in {"login_finish", "login_raised"} /\ login.submits = 1
        /\ ~login.verification.isNone) =>
        LET d == Upper(login.verification.description)
            benign == Contains(d, "SHUTDOWN")
                         \/ (Contains(d, "DESKTOP") /\ Contains(d, "TASKBAR"))
            failure == \/ \E ph \in {"STILL ON LOGIN", "SHOWING LOGIN", "AT LOGIN SCREEN",
                                     "INCORRECT PASSWORD", "PASSWORD INCORRECT",
                                     "WRONG PASSWORD"} : Contains(d, ph)
                       \/ (Contains(d, "LOCKED") /\ Contains(d, "SCREEN"))
            success == CASE login.verification.verified -> TRUE
                         [] ~login.verification.verified /\ benign -> TRUE
                         [] ~login.verification.verified /\ ~benign /\ failure -> FALSE
                         [] OTHER -> login.verification.confidence = "low" \/ d = ""
        IN  login.outcome = IF success THEN "Verified" ELSE "LoginFailed"

\* a low-confidence verdict whose description has a failure phrase made
\* the login fail
FailurePhraseBeforeLowConfidence ==
    /\ pc = "login_raised" /\ login.submits = 1
    /\ ~login.verification.isNone /\ ~login.verification.verified
    /\ login.verification.confidence = "low"
    /\ Contains(Upper(login.verification.description), "INCORRECT PASSWORD")
    /\ login.outcome = "LoginFailed"

\* C9: whenever the post-submit verdict is not verified and its description
\* reports a wrong or incorrect password, the login screen still showing or
\* a locked screen, login_windows ends in LoginFailed
HardFailOnNegativeSignal ==
    (/\ pc \in {"login_finish", "login_raised"} /\ login.submits = 1
     /\ ~login.verification.isNone /\ ~login.verification.verified
     /\ LET d == Upper(login.verification.description)
        IN  \/ \E ph \in {"STILL ON LOGIN", "SHOWING LOGIN", "AT LOGIN SCREEN",
                          "INCORRECT PASSWORD", "PASSWORD INCORRECT",
                          "WRONG PASSWORD"} : Contains(d, ph)
            \/ (Contains(d, "LOCKED") /\ Contains(d, "SCREEN"))) =>
        login.outcome = "LoginFailed"

\* C10: when the detected displayed username without its domain prefix
\* equals the target username up to case, the protocol does not enter user
\* switching and enters the password only, whatever fields the detection
\* reported
CachedUserPasswordOnly ==
    (/\ pc \in {"login_switch", "login_enter", "login_submit", "login_finish", "login_raised"}
     /\ login.detections = 1
     /\ Truthy(login.detected.displayed_username)
     /\ Lower(StripDomain(login.detected.displayed_username.val)) = Lower(login.username)) =>
        /\ pc # "login_switch" /\ login.switches = 0
        /\ \A i \in DOMAIN input_log : input_log[i] \notin {"Escape", "type:username"}
        /\ login.mode \in {"", "password_only"}
        /\ pc \in {"login_submit", "login_finish"} => login.mode = "password_only"

\* the detection reported a username field and a displayed name that
\* matches the target: the password alone was entered
CachedUserWithUsernameField ==
    /\ pc = "login_submit"
    /\ login.detected.has_username /\ login.detected.has_password
    /\ Truthy(login.detected.displayed_username)
    /\ Lower(StripDomain(login.detected.displayed_username.val)) = Lower(login.username)
    /\ login.mode = "password_only" /\ login.switches = 0

\* C11: a pass of the command protocol whose output verdict has a negation
\* phrase in its description is not classified as an error, whatever error
\* indicators the description also has: the pass ends the command with
\* success and counts as no failed attempt (a pass that ends otherwise has
\* no negation phrase in its output description)
NegationSuppressesError ==
    [][(/\ cmd'.tries = cmd.tries + 1
        /\ cmd'.op = "interactive"
        /\ ~cmd'.output.isNone) =>
          \/ /\ pc' = "cmd_return" /\ cmd'.success
             /\ cmd'.errors = cmd.errors /\ cmd'.failures = cmd.failures
          \/ ~oracle.has_negation[cmd'.output]]_vars

\* a command returned success on an output described with a negation
\* phrase and with an error indicator
NegatedErrorPassed ==
    /\ pc = "cmd_return" /\ cmd.op = "interactive" /\ cmd.success
    /\ ~cmd.output.isNone
    /\ Contains(Upper(cmd.output.description), "NO ERROR")
    /\ Contains(Upper(cmd.output.description), "RED TEXT")

\* C12: for every reply that lacks one or more of the three labelled
\* fields, the verdict verify_ui_state returns has the default of each
\* missing field: verified=false, confidence=low, and the raw reply text as
\* description
MissingFieldsTakeDefaults ==
    (pc = "llm_return" /\ llm.op = "verify_ui_state") =>
        LET raw == analyze_screenshot(llm.reply)
            text == IF raw.isNone THEN "" ELSE Upper(raw.val)
        IN  /\ ~Contains(text, "VERIFIED:") => llm.verdict.verified = FALSE
            /\ ~Contains(text, "CONFIDENCE:") => llm.verdict.confidence = "low"
            /\ ~Contains(text, "DESCRIPTION:") =>
                   (~raw.isNone /\ llm.verdict.description = raw.val)

\* C13: when the reply to the field detection lacks one or more of the
\* labelled fields, or the oracle call failed, the login protocol goes on
\* password-only: no user switch, has_username=false and has_password=true,
\* and no username is typed
UnparsedDetectionPasswordOnly ==
    (/\ pc \in {"login_switch", "login_enter", "login_submit", "login_finish"}
     /\ login.detections = 1
     /\ \/ login.reply.kind # "text"
        \/ LET text == Upper(login.reply.text)
           IN  \/ ~(Contains(text, "USERNAME_FIELD:") \/ Contains(text, "USERNAME FIELD:"))
               \/ ~(Contains(text, "PASSWORD_FIELD:") \/ Contains(text, "PASSWORD FIELD:"))
               \/ ~(Contains(text, "DISPLAYED_USERNAME:")
                       \/ Contains(text, "DISPLAYED USERNAME:"))
               \/ ~Contains(text, "DESCRIPTION:")) =>
        /\ pc # "login_switch" /\ login.switches = 0
        /\ ~login.field_detection.has_username /\ login.field_detection.has_password
        /\ login.mode \in {"", "password_only"}


\* C14: every verdict returned by verify_ui_state, whatever the oracle's
\* reply (empty, malformed or the text of a client error included), has a
\* boolean verified and a confidence that is one of high, medium, low.
VerdictWellFormed ==
    (pc = "llm_return" /\ llm.op = "verify_ui_state") =>
        /\ llm.verdict.verified \in BOOLEAN
        /\ llm.verdict.confidence \in {"high", "medium", "low"}


\* C15: a lock screen seen at the run-dialog check is a hard failure that is
\* not retried: the pass that sees it ends run_powershell_interactive with
\* False, no further attempt is made even when attempts remain, and nothing
\* is sent after Win+R (no cmd.exe, no powershell.exe, no command).
LockScreenEndsCommand ==
    [][(/\ cmd'.tries = cmd.tries + 1
        /\ cmd'.op = "interactive"
        /\ ~cmd'.dialog.isNone
        /\ \E phrase \in {"CTRL+ALT+DELETE", "UNLOCK", "LOCK SCREEN"} :
               Contains(Upper(cmd'.dialog.description), phrase)) =>
          /\ pc' = "cmd_return" /\ ~cmd'.success
          /\ cmd'.attempt = cmd.attempt
          /\ input_log' = input_log \o <<"click_canvas", "Meta+R">>]_vars

\* run_powershell_interactive returned False after a single pass, its first
\* of two, that saw the lock screen and sent nothing but the click and Win+R
LockedOnFirstAttempt ==
    /\ pc = "cmd_return" /\ cmd.op = "interactive" /\ ~cmd.success
    /\ cmd.attempt = 1 /\ cmd.tries = 1 /\ cmd.attempt < max_retries
    /\ ~cmd.dialog.isNone
    /\ Contains(Upper(cmd.dialog.description), "CTRL+ALT+DELETE")
    /\ input_log = <<"click_canvas", "Meta+R">>


FailedTranslationDegrades ==
    [][(pc = "custom_step" /\ pc' # "cmd_attempt") =>
          LET results == cmd'.custom_results
          IN  /\ Len(results) = Len(cmd.custom_results) + 1
              /\ results[Len(results)].success
              /\ results[Len(results)].error = ""
              /\ pc' = IF cmd.index < cmd.total THEN "custom_step" ELSE "collect"]_vars


\* C18: when a run fails for good after its session was started (the
\* connection fails, the login fails, anything fails later), the result
\* run_verification returns still carries the verification results with the
\* action log and the screenshots gathered up to the failure.
FailureKeepsEvidence ==
    (result.set /\ ~result.success /\ acquired = ResourceSet) =>
        /\ result.has_results
        /\ result.results.set


\* C19: the result of a run has login_failed = true exactly when the login
\* protocol ended in failure; a run that failed in any other stage has
\* success = false and no login_failed = true.
LoginFailedExactlyOnLoginFailure ==
    (pc = "returned" /\ result.set) =>
        LET login_ended_in_failure == login.outcome \in {"LoginFailed", "LoginScreenTimeout"}
        IN  /\ result.login_failed <=> login_ended_in_failure
            /\ (~result.success /\ ~login_ended_in_failure) => ~result.login_failed


\* C20: every step result with success = false carries a non-empty error,
\* or a verdict was recorded during that step: checked where the result is
\* appended, for the login step, the literal commands and the custom steps.
FailedStepExplained ==
    [][/\ pc = "login_raised" =>
              LET step == steps_completed'[Len(steps_completed')]
              IN  step.success \/ step.error # "" \/ login.verification_results > 0
       /\ (pc = "cmd_return" /\ cmd.caller = "literal") =>
              LET step == steps_completed'[Len(steps_completed')]
              IN  step.success \/ step.error # "" \/ cmd.verification_results > 0
       /\ (pc = "cmd_return" /\ cmd.caller = "custom") =>
              LET step == cmd'.custom_results[Len(cmd'.custom_results)]
              IN  step.success \/ step.error # "" \/ cmd.verification_results > 0
       /\ (pc = "custom_step" /\ pc' # "cmd_attempt") =>
              LET step == cmd'.custom_results[Len(cmd'.custom_results)]
              IN  step.success \/ step.error # ""]_vars


ResultsCarryAllScreenshots ==
    [][(~perf.set /\ perf'.set) => perf'.screenshots = screenshots]_vars


OneResultPerAgent ==
    /\ pc # "batch_raised" \/ batch.agents = 0
    /\ (pc = "returned" /\ batch.agents > 0) =>
           /\ result.set
           /\ result.success => (result.has_results /\ ~result.results.login_failed)
    /\ pc = "batch_returned" =>
           /\ Len(batch.results) = batch.agents
           /\ \A k \in 1..batch.agents : batch.results[k].agent_id = k

\* a batch over two agents returned two results although the run of the
\* first agent failed
BatchWentOnAfterFailedRun ==
    /\ pc = "batch_returned" /\ batch.agents = 2
    /\ Len(batch.results) = 2
    /\ ~batch.results[1].success /\ batch.results[2].success


\* C25: every character that needs a shift modifier (an uppercase letter or
\* a shifted symbol), whether of the username, the password or a command,
\* is sent as Shift press, base key, Shift release, never as one keystroke.
ShiftedCharsHoldShift ==
    [][(keyboard'.typed = keyboard.typed + 1 /\ keyboard'.failures = keyboard.failures) =>
          LET char == CharAt(keyboard.text, keyboard'.typed)
              sent == SubSeq(input_log', Len(input_log) + 1, Len(input_log'))
          IN  (IsUpper(char) \/ char \in DOMAIN shift_chars) =>
                  /\ Len(sent) = 3
                  /\ sent[1] = "down:Shift" /\ sent[3] = "up:Shift"
                  /\ sent[2] # "type:" \o char]_vars


\* C26: a cancellation signal that arrives during a settle wait, a
\* login-screen poll or an oracle round-trip ends the run with a Cancelled
\* outcome and no other: a run that ends on the signal has a result, and
\* the result says Cancelled.
CancelSurfacesCancelled ==
    (pc \in {"returned", "interrupted"} /\ exc.type = "KeyboardInterrupt") =>
        result.set /\ result.error = "Cancelled"


\* C27: on a username mismatch the user-switch sequence (Escape, the clicks
\* at the candidate locations in their fixed order, a new screenshot and a
\* new detection) runs once and never again, and after it the protocol goes
\* on to the credential entry whatever the new detection reports.
SwitchOnceThenCredentials ==
    [][(pc = "login_switch" /\ login'.switches # login.switches) =>
          /\ login.switches = 0 /\ login'.switches = 1
          /\ input_log' = (input_log \o <<"Escape">>) \o other_user_locations
          /\ pc' = "login_enter"
          /\ exc' = exc]_vars

SwitchedWithoutBothFields ==
    /\ pc = "login_enter"
    /\ login.switches = 1
    /\ ~(login.field_detection.has_username /\ login.field_detection.has_password)


\* C28: no command and no custom step is started unless the login has
\* completed successfully in that run; the connect and the boot wait come
\* before the login, and all literal commands come before all custom steps.
LoginBeforeCommandsBeforeSteps ==
    LET kinds == [i \in DOMAIN steps_completed |-> steps_completed[i].kind]
    IN  /\ (\/ pc \in {"commands", "cmd_attempt", "cmd_return", "custom_steps", "custom_step"}
            \/ cmd.caller # ""
            \/ \E i \in DOMAIN kinds : kinds[i] \in {"command", "custom"}) =>
               /\ login.outcome = "LoggedIn"
               /\ Len(steps_completed) >= 3
               /\ SubSeq(kinds, 1, 3) = <<"connect", "desktop", "login">>
               /\ steps_completed[3].success
        /\ pc \in {"login_start", "login_wait", "login_detect", "login_switch", "login_enter",
                   "login_submit", "login_finish", "login_raised"} =>
               kinds = <<"connect", "desktop">>
        /\ cmd.caller = "literal" =>
               /\ cmd.custom_results = <<>>
               /\ \A i \in DOMAIN kinds : kinds[i] # "custom"
        /\ \A i, j \in DOMAIN kinds :
               (kinds[i] = "command" /\ kinds[j] = "custom") => i < j

CustomStepAfterCommand ==
    /\ pc = "custom_step"
    /\ cmd.index = 2
    /\ \E i \in DOMAIN steps_completed : steps_completed[i].kind = "command"


\* C29: _capture_screenshot never raises: a capture that fails returns an
\* empty path and no verdict and leaves the screenshot list as it was, and
\* a capture that succeeds appends exactly one path, the one it returns.
CaptureNeverRaises ==
    [][(Len(calls') = Len(calls) + 1 /\ calls'[Len(calls')].op = "capture") =>
          LET c == calls'[Len(calls')]
          IN  /\ exc' = exc
              /\ pc' = pc
              /\ IF c.failures = 1
                 THEN c.path = "" /\ c.verdict.isNone /\ screenshots' = screenshots
                 ELSE c.path # "" /\ screenshots' = Append(screenshots, c.path)]_vars

CaptureFailedAfterOperation ==
    /\ Len(calls) = 2 /\ calls[2].op = "capture"
    /\ calls[2].failures = 1 /\ calls[2].path = ""
    /\ screenshots # <<>>


\* C30: once the login has been verified, a failure while the idle-lock
\* timeouts are disabled through the shell does not change the outcome:
\* login_windows returns success and the login step is recorded as
\* successful.
IdleLockFailureKeepsLogin ==
    [][(pc = "login_finish" /\ login'.idle_lock = "failed") =>
          /\ login'.outcome = "LoggedIn"
          /\ exc' = exc
          /\ pc' = "commands"
          /\ steps_completed' = Append(steps_completed,
                 [step_number |-> 3, kind |-> "login", item |-> 0, success |-> TRUE,
                  error |-> ""])]_vars

LoggedInWithIdleLockLeftOn ==
    /\ pc = "commands"
    /\ login.idle_lock = "failed"
    /\ login.outcome = "LoggedIn"
    /\ steps_completed[3].success


\* C31: for every point of the reference frame and every rendered canvas
\* box the click position is the box origin plus (x * width / 1920,
\* y * height / 1080): the map is linear in each axis, monotone, sends the
\* corners of the frame to the corners of the box, and can be inverted.
ClickMapIsLinear ==
    (mouse.canvas = "box" /\ mouse.op # "") =>
        LET b == mouse.bbox
        IN  /\ mouse.page_x = b.x * 1920 + mouse.x * b.width
            /\ mouse.page_y = b.y * 1080 + mouse.y * b.height
            /\ (mouse.page_x - b.x * 1920) \div b.width = mouse.x
            /\ (mouse.page_y - b.y * 1080) \div b.height = mouse.y
            /\ \A x \in FrameXs :
                  /\ click_x(b, x) - mouse.page_x = (x - mouse.x) * b.width
                  /\ x < mouse.x => click_x(b, x) < mouse.page_x
            /\ \A y \in FrameYs :
                  /\ click_y(b, y) - mouse.page_y = (y - mouse.y) * b.height
                  /\ y < mouse.y => click_y(b, y) < mouse.page_y
            /\ (mouse.x = 0 /\ mouse.y = 0) =>
                  (mouse.page_x = b.x * 1920 /\ mouse.page_y = b.y * 1080)
            /\ (mouse.x = 1920 /\ mouse.y = 1080) =>
                  /\ mouse.page_x = (b.x + b.width) * 1920
                  /\ mouse.page_y = (b.y + b.height) * 1080

ClickedInsideSmallCanvas ==
    /\ pc = "clicked"
    /\ mouse.canvas = "box" /\ mouse.bbox.width = 800 /\ mouse.bbox.x = 8
    /\ mouse.x = 150 /\ mouse.y = 1000


\* C32: across the runs of a batch on one orchestrator, DestroyVM is called
\* at most once for a VM and only for the VM that the current run created:
\* a run that fails before it creates its VM makes no DestroyVM call.
DestroyOnlyOwnVMOnce ==
    [][Len(destroyCalls') > Len(destroyCalls) =>
          LET d == destroyCalls'[Len(destroyCalls')]
          IN  /\ runVM # 0
              /\ d.vm = runVM
              /\ \A i \in DOMAIN destroyCalls : destroyCalls[i].vm # d.vm]_vars


\* C33: with an oracle configured, login_windows leaves the wait for the
\* login screen towards the field detection only after a poll whose verdict
\* was verified; a poll whose capture or oracle query failed never counts
\* as a confirmed login screen.
DetectionOnlyAfterPositivePoll ==
    [][(pc = "login_wait" /\ pc' = "login_detect") =>
          /\ login'.screenshot_ok
          /\ login'.first_positive = login'.attempts]_vars


\* C34: whatever the oracle answers and whatever the driver does,
\* login_windows terminates: it makes at most floor(timeout / 10) polls for
\* the login screen, at most one user switch and at most one submit, and it
\* ends by returning true or by raising VMAutomationError, no other
\* exception.
LoginTerminates ==
    /\ [](/\ login.attempts <= settings.vm_login_screen_timeout \div 10
          /\ login.switches <= 1
          /\ login.submits <= 1
          /\ pc = "login_raised" => exc.type = "VMAutomationError"
          /\ pc \in {"login_start", "login_wait", "login_detect", "login_switch",
                     "login_enter", "login_submit", "login_finish", "commands"}
                => exc.type = "none")
    /\ (pc = "login_start") ~> (pc \in {"commands", "login_raised"})

LoginRaisedAfterDriverFailure ==
    /\ pc = "login_raised"
    /\ login.attempts = MaxPolls
    /\ login.switches = 1
    /\ exc.msg = "Login failed: keyboard.press: Target closed"


\* C35: when the oracle's reply to the post-submit check has none of the
\* labelled fields, the adapter's verdict is verified = false with low
\* confidence and the raw text as description, and unless the text holds one
\* of the known failure phrases login_windows declares the login
\* successful.
UnlabelledReplyLogsIn ==
    [][(/\ pc = "login_submit"
        /\ login'.submits = login.submits + 1
        /\ login'.verification \in oracle.login_verify_unlabelled) =>
          /\ ~login'.verification.verified
          /\ login'.verification.confidence = "low"
          /\ ~oracle.login_failure_phrase[login'.verification] =>
                 (pc' = "login_finish" /\ login'.outcome = "Verified")]_vars

LoginPromptTakenForLogin ==
    /\ pc = "login_finish"
    /\ login.outcome = "Verified"
    /\ login.verification.description = "A login prompt asking for the password"


\* C36: the success flag of a run depends only on the login and on the run
\* ending without an exception: run_verification returns success = true
\* whenever the login succeeded and the report was generated, even when
\* every command step and every custom step failed.
SuccessFollowsLoginOnly ==
    [][(~result.set /\ result'.set) =>
          /\ pc = "report" => result'.success = ~perf.login_failed
          /\ pc = "except" => ~result'.success]_vars

SuccessWithEveryStepFailed ==
    /\ result.set /\ result.success
    /\ LET steps == result.results.steps_completed
       IN  /\ \E i \in DOMAIN steps : steps[i].kind = "command"
           /\ \E i \in DOMAIN steps : steps[i].kind = "custom"
           /\ \A i \in DOMAIN steps : steps[i].kind \in {"command", "custom"} => ~steps[i].success


\* C37: in the final list of step results of a run the step numbers are
\* unique and strictly increasing: the k-th entry has step_number k, the
\* entries of the custom steps included.
StepNumbersFollowPosition ==
    perf.set =>
        \A k \in DOMAIN perf.steps_completed : perf.steps_completed[k].step_number = k


\* C38: the Shift modifier is never left held: after every return of
\* _type_char_vnc, for any character and even when a key event fails
\* partway, every Shift press has been matched by a Shift release.
ShiftNeverLeftHeld ==
    Cardinality({i \in DOMAIN input_log : input_log[i] = "down:Shift"})
        = Cardinality({i \in DOMAIN input_log : input_log[i] = "up:Shift"})


\* C39: the classification of a command's output depends only on the
\* phrases of the description, not on the verdict's verified flag: a pass
\* whose output verdict is not verified but has no error indicator is a
\* success and ends the command with true, and a pass whose verdict is
\* verified but has an error indicator and no negation phrase is an error.
OutputClassifiedByPhrases ==
    [][(/\ cmd'.tries = cmd.tries + 1
        /\ cmd'.op = "interactive"
        /\ ~cmd'.output.isNone) =>
          LET description == Upper(cmd'.output.description)
              indicator == \E p \in error_indicators : Contains(description, p)
              negation == \E p \in negation_phrases : Contains(description, p)
          IN  /\ (cmd'.errors = cmd.errors + 1) <=> (indicator /\ ~negation)
              /\ (cmd'.errors = cmd.errors) <=> ~(indicator /\ ~negation)
              /\ (~cmd'.output.verified /\ ~indicator) =>
                     (pc' = "cmd_return" /\ cmd'.success)
              /\ (cmd'.output.verified /\ indicator /\ ~negation) =>
                     ~(pc' = "cmd_return" /\ cmd'.success)]_vars

UnverifiedOutputPassed ==
    /\ pc = "cmd_return" /\ cmd.op = "interactive" /\ cmd.success
    /\ ~cmd.output.isNone /\ ~cmd.output.verified
    /\ cmd.output.confidence = "medium"
    /\ cmd.errors = 0


\* C40: the events of a run are ordered: the remote session is closed
\* before the report is generated; the VM is destroyed only after the
\* session has been closed and, when the report generation was reached,
\* after it has finished; no input is sent to the session after the VM was
\* destroyed.
SessionClosedBeforeReportAndTeardown ==
    [][/\ pc' = "report" => \A r \in acquired' : released'[r] = 1
       /\ Len(destroyCalls') > Len(destroyCalls) =>
             /\ \A r \in acquired : released[r] = 1
             /\ pc = "finally"
       /\ destroyCalls # <<>> => Len(input_log') <= Len(input_log)]_vars

=============================================================================
